---- MODULE Spec2Model ----
(***************************************************************************)
(* A model of the LibreOffice helper (src/libre-writer/helper.py), the     *)
(* single-threaded TCP command executor, and of the tool front-end         *)
(* (src/libre-writer/libre.py) that talks to it.                           *)
(*                                                                         *)
(* Specification Spec is the executor: client sockets arrive in the        *)
(* listen queue, the main loop accepts one, receives one buffer, parses    *)
(* it, dispatches the command to its handler, which drives the document    *)
(* host (open, mutate, store, close), builds the response, sends it and    *)
(* closes the socket.  The document host and the clients are the           *)
(* environment: every host call may raise, files may be missing, read-back *)
(* text may differ, and these outcomes are chosen with \E.                 *)
(*                                                                         *)
(* Specification SpecFE is the front-end: a tool is called, checks its     *)
(* arguments, and call_libreoffice_helper connects, sends the command,     *)
(* receives one buffer, parses it and hands a result dict back to the      *)
(* tool, which returns one value to its caller.  The helper process and    *)
(* the network are the environment.                                        *)
(***************************************************************************)
EXTENDS Integers, Sequences, FiniteSets, TLC

(***************************************************************************)
(* Bounds of the model.                                                    *)
(***************************************************************************)
\* number of client connections made in one run
MaxConns == 2
\* cap on the number of host documents left open by earlier commands
MaxLeaks == 1

(***************************************************************************)
(* Program constants.                                                      *)
(***************************************************************************)
\* helper.py:2897  client_socket.recv(16384)
RecvBuf == 16384
\* helper.py:48  server_socket.listen(1)
ListenBacklog == 1
\* length in bytes of an ordinary small JSON command such as {"action": "ping"}
SmallLen == 18

ConnIds == 1..MaxConns

(***************************************************************************)
(* Python values that reach a response.  A message is a str or None.       *)
(***************************************************************************)
Str(s) == [isStr |-> TRUE, text |-> s]
PyNone == [isStr |-> FALSE, text |-> "None"]

\* an exception in flight: type is "HelperError" or "Exception"; str(e) is msg
NoExc == [type |-> "none", msg |-> ""]
HelperError(m) == [type |-> "HelperError", msg |-> m]
HostException(m) == [type |-> "Exception", msg |-> m]

NoResp == [status |-> "none", message |-> PyNone]
Response(s, m) == [status |-> s, message |-> m]

(***************************************************************************)
(* The dispatch table: the keys of COMMAND_HANDLERS.                       *)
(***************************************************************************)
COMMAND_HANDLERS ==
    { "create_document", "read_text_document", "get_document_properties",
      "list_documents", "copy_document",
      "add_slide", "edit_slide_content", "edit_slide_title", "delete_slide",
      "read_presentation", "apply_presentation_template",
      "format_slide_content", "format_slide_title", "insert_slide_image",
      "add_text", "add_heading", "add_paragraph", "add_table", "insert_image",
      "insert_page_break", "format_text", "search_replace_text", "delete_text",
      "format_table", "delete_paragraph", "apply_document_style",
      "ping" }

(***************************************************************************)
(* The action names the front-end sends: one per call_libreoffice_helper   *)
(* call site in libre.py (tools, the document resource, and main's ping).  *)
(***************************************************************************)
FrontEndActions ==
    { "create_document", "read_text_document", "get_document_properties",
      "list_documents", "copy_document", "add_text", "add_heading",
      "add_paragraph", "add_table", "insert_image", "insert_page_break",
      "format_text", "search_replace_text", "delete_text", "format_table",
      "delete_paragraph", "apply_document_style", "read_presentation",
      "add_slide", "edit_slide_content", "edit_slide_title", "delete_slide",
      "apply_presentation_template", "format_slide_content",
      "format_slide_title", "insert_slide_image",
      "open_text_document", "ping" }

\* action names only a hand-written client sends ("" is a missing action field)
RawOnlyActions == { "open_presentation", "create_custom_style", "" }

AllActions == COMMAND_HANDLERS \cup FrontEndActions \cup RawOnlyActions

(***************************************************************************)
(* Request bodies.  A body is what one client writes on its socket before  *)
(* the executor's single recv: jsonLen bytes of text followed by padLen    *)
(* bytes of trailing whitespace.                                           *)
(*   form "object"    a JSON object; its "action" field is action          *)
(*   form "nonobject" valid JSON that is no object (a list, a number)      *)
(*   form "garbage"   text that is no JSON                                 *)
(*   form "badutf8"   bytes that are no UTF-8                              *)
(*   form "empty"     the client closed without writing                    *)
(*   form "silent"    the client wrote nothing and keeps the socket open   *)
(* origin "tool" marks a command built by a front-end call site (compact   *)
(* json.dumps output, no padding); "raw" is any other client.              *)
(***************************************************************************)
Body(f, o, a, n, p) ==
    [form |-> f, origin |-> o, action |-> a, jsonLen |-> n, padLen |-> p]
NoBody == Body("none", "none", "", 0, 0)

\* front-end call sites whose text argument is taken beyond the buffer here
BigArgActions == { "add_text", "edit_slide_content" }

ToolBodies ==
    { Body("object", "tool", a, SmallLen, 0) : a \in FrontEndActions }
    \cup { Body("object", "tool", a, n, 0) :
             a \in BigArgActions, n \in { RecvBuf, RecvBuf + 1 } }

RawBodies ==
    { Body("object", "raw", a, SmallLen, p) :
        a \in { "ping", "add_text" } \cup RawOnlyActions,
        p \in { 0, RecvBuf } }
    \cup { Body("object", "raw", "ping", n, 0) : n \in { RecvBuf, RecvBuf + 1 } }
    \cup { Body(f, "raw", "", SmallLen, 0) :
             f \in { "nonobject", "garbage", "badutf8" } }
    \cup { Body("garbage", "raw", "", RecvBuf + 1, 0),
           Body("empty", "raw", "", 0, 0),
           Body("silent", "raw", "", 0, 0) }

Bodies == ToolBodies \cup RawBodies

TotalLen(b) == b.jsonLen + b.padLen

(***************************************************************************)
(* State.                                                                  *)
(***************************************************************************)
VARIABLES
    sockState,      \* per client socket: "unused", "queued", "accepted", "closed"
    sockBody,       \* per client socket: the bytes waiting to be received
    pc,             \* position of the executor in its main loop / handler
    client_socket,  \* the socket returned by accept(), 0 when none
    command,        \* the received data after recv and json.loads
    ran,            \* safe_execute was entered for this command
    mdoc,           \* handle of the current managed_document block
    tdoc,           \* handle of the template opened by apply_presentation_template
    ndoc,           \* handle loaded without the wrapper (create_document, new_doc)
    stored,         \* store()/storeToURL() succeeded during this command
    hostRaised,     \* a host automation call raised during this command
    verifyFailed,   \* a read-back verification failed during this command
    exc,            \* exception propagating out of the handler
    result,         \* value returned by the handler
    response,       \* the response dict built by the main loop
    sent,           \* the response written on client_socket, NoResp if none
    sendRaised,     \* the send of the response at helper.py:2929 raised
    leaked,         \* host documents left open by finished commands
    gaveUp,         \* per client socket: "no", or where the server was when
                    \* the caller stopped waiting: "queued", "serving"
    fpc,            \* position of the front-end in a tool call
    fcall,          \* the call site and its arguments
    fsock,          \* the socket of call_libreoffice_helper: "none", "open", "closed"
    freply,         \* response_data, the decoded bytes of the one recv
    fexc,           \* exception raised inside the try of call_libreoffice_helper
    fcause,         \* what went wrong locally during the call, "none" if nothing
    fraised,        \* an exception left call_libreoffice_helper
    fresult,        \* the dict call_libreoffice_helper returned
    fret,           \* the value the tool returned to its caller
    args,           \* the function or handler applied last and its arguments
    retval,         \* what it returned or raised
    file            \* the document stored at the path of the document handlers

feVars == << fpc, fcall, fsock, freply, fexc, fcause, fraised, fresult, fret >>

\* state of the specifications that follow one function or one handler
unitVars == << args, retval, file >>

vars == << sockState, sockBody, pc, client_socket, command, ran, mdoc, tdoc,
           ndoc, stored, hostRaised, verifyFailed, exc, result, response, sent,
           sendRaised, leaked, gaveUp, feVars, unitVars >>

execVars == << sockState, sockBody, pc, client_socket, command, ran, mdoc,
               tdoc, ndoc, stored, hostRaised, verifyFailed, exc, result,
               response, sent, sendRaised, leaked, gaveUp >>

sockVars == << sockState, sockBody >>
docVars == << mdoc, tdoc, ndoc, stored, hostRaised, verifyFailed, leaked >>
outVars == << exc, result, response, sent, sendRaised >>

NoCommand == [form |-> "none", origin |-> "none", action |-> "",
              truncated |-> FALSE]

\* the front-end between two tool calls
NoPath == [empty |-> TRUE, ext |-> ""]
NoCall == [action |-> "", path |-> NoPath, level |-> 1]
NoReply == [form |-> "none", jsonLen |-> 0, padLen |-> 0, resp |-> NoResp]
NoRet == [isStr |-> FALSE, text |-> "no return"]

\* no function applied yet
NoArgs == [fn |-> "none"]

\* no document at the path
Absent == [kind |-> "absent", body |-> << >>]

Init ==
    /\ sockState = [i \in ConnIds |-> "unused"]
    /\ sockBody = [i \in ConnIds |-> NoBody]
    /\ pc = "accept"
    /\ client_socket = 0
    /\ command = NoCommand
    /\ ran = FALSE
    /\ mdoc = "none"
    /\ tdoc = "none"
    /\ ndoc = "none"
    /\ stored = FALSE
    /\ hostRaised = FALSE
    /\ verifyFailed = FALSE
    /\ exc = NoExc
    /\ result = PyNone
    /\ response = NoResp
    /\ sent = NoResp
    /\ sendRaised = FALSE
    /\ leaked = 0
    /\ gaveUp = [i \in ConnIds |-> "no"]
    /\ fpc = "idle"
    /\ fcall = NoCall
    /\ fsock = "none"
    /\ freply = NoReply
    /\ fexc = NoExc
    /\ fcause = "none"
    /\ fraised = FALSE
    /\ fresult = NoResp
    /\ fret = NoRet
    /\ args = NoArgs
    /\ retval = NoArgs
    /\ file = Absent

(***************************************************************************)
(* Clients.  connect() succeeds while the listen queue has room; sockets   *)
(* are queued in connection order.                                         *)
(***************************************************************************)
Queued == { i \in ConnIds : sockState[i] = "queued" }
Accepted == { i \in ConnIds : sockState[i] = "accepted" }
Unused == { i \in ConnIds : sockState[i] = "unused" }

Min(S) == CHOOSE x \in S : \A y \in S : x <= y

\* a client connects and writes one of the bodies in B
ConnectWith(B) ==
    /\ Unused # {}
    /\ Cardinality(Queued) < ListenBacklog
    /\ \E b \in B :
         LET i == Min(Unused) IN
         /\ sockState' = [sockState EXCEPT ![i] = "queued"]
         /\ sockBody' = [sockBody EXCEPT ![i] = b]
    /\ UNCHANGED << feVars, unitVars, gaveUp, pc, client_socket, command, ran, docVars,
                    outVars >>

Connect == ConnectWith(Bodies)

(***************************************************************************)
(* Main server loop, helper.py:2885-2964.                                  *)
(***************************************************************************)
\* a server that accepts while a connection is still being served
CanAcceptWhileServing == TRUE

\* the loop is at server_socket.accept() only between two iterations
CanAccept == pc = "accept"

Accept ==
    /\ CanAccept
    /\ Queued # {}
    /\ LET i == Min(Queued) IN
         /\ sockState' = [sockState EXCEPT ![i] = "accepted"]
         /\ client_socket' = i
    /\ pc' = "recv"
    /\ UNCHANGED << feVars, unitVars, gaveUp, sockBody, command, ran, docVars, outVars >>

\* bytes the peer wrote only while it still waits for the response
PendingUnlessGone(i) ==
    IF gaveUp[i] = "no" THEN sockBody[i]
    ELSE Body("empty", sockBody[i].origin, "", 0, 0)

\* the bytes recv finds on socket i: what the peer wrote stays in the socket
\* buffer whether or not the peer still waits
Pending(i) == sockBody[i]

\* number of bytes one recv(16384) hands over
Received(b) == IF TotalLen(b) <= RecvBuf THEN TotalLen(b) ELSE RecvBuf

\* json.loads on the received prefix: the JSON text must be complete; what
\* follows it in the prefix is whitespace
ParsesAsJson(b) ==
    /\ b.form \in { "object", "nonobject" }
    /\ b.jsonLen <= Received(b)

Recv ==
    /\ pc = "recv"
    /\ LET b == Pending(client_socket) IN
         /\ sockBody' = [sockBody EXCEPT ![client_socket] = NoBody]
         /\ CASE b.form = "silent" ->
                   \* socket.timeout, helper.py:2933-2943
                   /\ response' = Response("error", Str("Connection timed out"))
                   /\ pc' = "send_last"
                   /\ UNCHANGED << command, exc >>
              [] b.form = "empty" ->
                   \* helper.py:2899-2902
                   /\ pc' = "close"
                   /\ UNCHANGED << command, exc, response >>
              [] b.form = "badutf8" ->
                   \* decode raises outside the inner try, helper.py:2944-2961
                   /\ response' = Response("error", Str("codec can't decode"))
                   /\ pc' = "send_last"
                   /\ UNCHANGED << command, exc >>
              [] OTHER ->
                   /\ command' = [form |-> IF ParsesAsJson(b) THEN b.form
                                           ELSE "invalid",
                                  origin |-> b.origin,
                                  action |-> b.action,
                                  truncated |-> TotalLen(b) > RecvBuf]
                   /\ pc' = "parse"
                   /\ UNCHANGED << exc, response >>
    /\ UNCHANGED << feVars, unitVars, gaveUp, sockState, client_socket, ran, docVars, result, sent,
                    sendRaised >>

(***************************************************************************)
(* handle_command, helper.py:2863-2880, called from the main loop after    *)
(* json.loads (helper.py:2907-2909).                                       *)
(***************************************************************************)
\* COMMAND_HANDLERS.get(action) found a handler
HasHandler(action) == action \in COMMAND_HANDLERS

\* an else branch that raises instead of returning the string
UnknownActionRaises(action) ==
    [exc |-> HelperError("Unknown action: " \o action), result |-> PyNone]

\* the else branch of handle_command: a plain string is returned
UnknownAction(action) ==
    [exc |-> NoExc, result |-> Str("Unknown action: " \o action)]

Parse ==
    /\ pc = "parse"
    /\ CASE command.form = "invalid" ->
              \* json.JSONDecodeError, helper.py:2915-2919
              /\ response' = Response("error", Str("Invalid JSON received"))
              /\ pc' = "send"
              /\ UNCHANGED << ran, exc, result >>
         [] command.form = "nonobject" ->
              \* command.get raises AttributeError, re-raised at helper.py:2880
              /\ exc' = HostException("object has no attribute 'get'")
              /\ pc' = "respond"
              /\ UNCHANGED << ran, result, response >>
         [] OTHER ->
              IF HasHandler(command.action)
              THEN /\ ran' = TRUE
                   /\ pc' = "handler"
                   /\ UNCHANGED << exc, result, response >>
              ELSE /\ exc' = UnknownAction(command.action).exc
                   /\ result' = UnknownAction(command.action).result
                   /\ pc' = "respond"
                   /\ UNCHANGED << ran, response >>
    /\ UNCHANGED << feVars, unitVars, gaveUp, sockVars, client_socket, command, docVars, sent,
                    sendRaised >>

(***************************************************************************)
(* The handlers.  Kind groups them by how they reach the document host.    *)
(***************************************************************************)
\* a table in which every action, ping too, opens a document
KindAllManaged(a) == "managed"

Kind(a) ==
    CASE a = "ping" -> "ping"
      [] a = "list_documents" -> "list"
      [] a = "create_document" -> "create"
      [] a = "apply_presentation_template" -> "template"
      [] OTHER -> "managed"

ManagedActions == { a \in COMMAND_HANDLERS : Kind(a) = "managed" }

\* handlers that raise HelperError when the document has no getText /
\* getTextTables (the else branch of "if hasattr(doc, ...)")
TextCapRaise ==
    { "read_text_document", "add_text", "add_heading", "add_paragraph",
      "format_text", "search_replace_text", "delete_text", "format_table",
      "delete_paragraph", "apply_document_style" }

\* handlers guarded by valid_presentation, helper.py:853-859
SlideActions ==
    { "add_slide", "edit_slide_content", "edit_slide_title", "delete_slide",
      "read_presentation", "format_slide_content", "format_slide_title",
      "insert_slide_image" }

\* handlers whose "if hasattr(doc, 'getText')" has no else branch: the
\* function ends without a return statement (helper.py:531-576, 717-731)
NoCapFallsThrough == { "add_table", "insert_page_break" }

\* handlers that validate an index, a path or a search text before mutating
Validating ==
    { "delete_paragraph", "format_table", "edit_slide_content",
      "edit_slide_title", "delete_slide", "format_slide_content",
      "format_slide_title", "insert_slide_image", "insert_image",
      "search_replace_text", "delete_text" }

\* handlers with a try block that turns a host exception into HelperError
Wrapping ==
    { "add_paragraph", "add_table", "format_table", "edit_slide_content",
      "edit_slide_title", "format_slide_content", "format_slide_title",
      "insert_slide_image" }

\* handlers with a try block that logs a host exception and carries on
Swallowing ==
    { "add_slide", "edit_slide_content", "edit_slide_title",
      "format_slide_content", "format_slide_title", "insert_slide_image" }

\* handlers that never call store()
ReadOnly == { "read_text_document", "get_document_properties", "read_presentation" }

\* what a handler does when its read-back check fails:
\*   edit_slide_content helper.py:1374-1382, edit_slide_title 1590-1598 set
\*   edit_result and go on; delete_slide 1648-1653 raises HelperError
VerifyPolicy(a) ==
    CASE a \in { "edit_slide_content", "edit_slide_title" } -> "continue"
      [] a = "delete_slide" -> "abort"
      [] OTHER -> "none"

BodyEvents(a) ==
    { "ok", "fault_raise" }
    \cup (IF a \in TextCapRaise \cup SlideActions \cup NoCapFallsThrough
          THEN { "nocap" } ELSE {})
    \cup (IF a \in Validating THEN { "invalid" } ELSE {})
    \cup (IF a \in Wrapping THEN { "fault_wrap" } ELSE {})
    \cup (IF a \in Swallowing THEN { "fault_swallow" } ELSE {})
    \cup (IF VerifyPolicy(a) # "none" THEN { "verify_fail" } ELSE {})
    \cup (IF a = "edit_slide_content" THEN { "textbox_fail" } ELSE {})

\* the text a successful handler returns (paths and numbers left out)
SuccessText(a) ==
    CASE a = "copy_document" -> "Successfully copied document to: T"
      [] a = "add_text" -> "Text added to F"
      [] a = "add_heading" -> "Heading added to F"
      [] a = "add_paragraph" -> "Paragraph added to F"
      [] a = "format_text" -> "Formatted N occurrences in F"
      [] a = "search_replace_text" -> "Replaced N occurrences in F"
      [] a = "delete_text" -> "Replaced N occurrences in F"
      [] a = "add_table" -> "Table added to F"
      [] a = "format_table" -> "Table formatted in F"
      [] a = "insert_image" -> "Image inserted into F"
      [] a = "insert_page_break" -> "Page break inserted in F"
      [] a = "delete_paragraph" -> "Paragraph at index I deleted from F"
      [] a = "apply_document_style" -> "Style applied to document F"
      [] a = "add_slide" -> "Slide added at index I with TitleContent layout in F"
      [] a = "edit_slide_content" -> "Successfully edited content of slide I in F. "
      [] a = "edit_slide_title" -> "Successfully edited title of slide I in F. "
      [] a = "delete_slide" -> "Successfully deleted slide at index I from F."
      [] a = "format_slide_content" -> "Successfully formatted content of slide I in F."
      [] a = "format_slide_title" -> "Successfully formatted title of slide I in F."
      [] a = "insert_slide_image" -> "Successfully inserted image into slide I of F"
      [] a = "create_document" -> "Successfully created document at: F"
      [] a = "apply_presentation_template" ->
             "Successfully applied template to presentation with all content preserved"
      [] a = "ping" -> "LibreOffice helper is running"
      [] OTHER -> "content"

\* edit_result of edit_slide_content / edit_slide_title
EditResult(a, failed) ==
    IF a = "edit_slide_content"
    THEN (IF failed THEN "Content update failed - verification error"
                    ELSE "Content updated successfully")
    ELSE IF a = "edit_slide_title"
    THEN (IF failed THEN "Title update failed - verification error"
                    ELSE "Title updated successfully")
    ELSE ""

SuccessMessage(a, failed) == Str(SuccessText(a) \o EditResult(a, failed))

(***************************************************************************)
(* open_document, helper.py:134-163.  pre is the outcome of the steps      *)
(* before the loop; att[k] is what loadComponentFromURL does on attempt k: *)
(* "doc" returns a document, "none" returns None, "raise" raises.          *)
(***************************************************************************)
\* helper.py:134  retries=3
Retries == 3

OpenAttempts == [1..Retries -> { "doc", "none", "raise" }]
OpenPre == { "ok", "nopath", "missing", "nodesktop" }

\* helper.py:134  delay=0.5, in milliseconds
DelayMs == 500

\* get_uno_desktop, helper.py:106-125: res[1] is what resolve does on
\* localhost, res[2] on 127.0.0.1 ("ok", "noconnect" for NoConnectException,
\* "raise" for any other exception); the second address is tried only after
\* NoConnectException on the first
get_uno_desktop(res) ==
    IF res[1] = "noconnect"
    THEN [desktop |-> res[2] = "ok", resolves |-> 2]
    ELSE [desktop |-> res[1] = "ok", resolves |-> 1]

RECURSIVE open_loop(_, _, _, _, _)
open_loop(att, k, last, raised, slept) ==
    IF k > Retries
    THEN [doc |-> FALSE, exc |-> last, raised |-> raised, attempts |-> Retries,
          slept |-> slept]
    ELSE IF att[k] = "doc"
    THEN [doc |-> TRUE, exc |-> NoExc, raised |-> raised, attempts |-> k,
          slept |-> slept]
    ELSE IF att[k] = "none"
    THEN open_loop(att, k + 1, HelperError("Failed to load document: F"),
                   raised, slept + DelayMs)
    ELSE open_loop(att, k + 1, HostException("load failed"), TRUE,
                   slept + DelayMs)

\* an open that gives up after its first load attempt
open_document_once(pre, att) ==
    IF pre = "ok" /\ att[1] = "doc"
    THEN [doc |-> TRUE, exc |-> NoExc, raised |-> FALSE, attempts |-> 1,
          slept |-> 0]
    ELSE [doc |-> FALSE, exc |-> HelperError("Failed to load document: F"),
          raised |-> FALSE, attempts |-> IF pre = "ok" THEN 1 ELSE 0,
          slept |-> 0]

open_document(pre, att) ==
    CASE pre = "nopath" ->
           \* normalize_path returned None for a missing file_path
           [doc |-> FALSE,
            exc |-> HostException("'NoneType' object has no attribute 'startswith'"),
            raised |-> FALSE, attempts |-> 0, slept |-> 0]
      [] pre = "missing" ->
           [doc |-> FALSE, exc |-> HelperError("Document not found: F"),
            raised |-> FALSE, attempts |-> 0, slept |-> 0]
      [] pre = "nodesktop" ->
           [doc |-> FALSE,
            exc |-> HelperError("Failed to connect to LibreOffice desktop"),
            raised |-> FALSE, attempts |-> 0, slept |-> 0]
      [] OTHER -> open_loop(att, 1, NoExc, FALSE, 0)

(***************************************************************************)
(* managed_document, helper.py:59-70.  The finally clause calls            *)
(* doc.close(True) and swallows its exception.  close(True) delivers       *)
(* ownership: when it raises (a close veto) the handle is no longer the    *)
(* executor's, which the model records as "vetoed".                        *)
(***************************************************************************)
\* try: doc.close(True) / except: pass
CloseQuietly(h, closeOk) ==
    IF h = "open" THEN (IF closeOk THEN "closed" ELSE "vetoed") ELSE h

\* a wrapper that closes after the yield instead of in a finally clause
ManagedCloseOnSuccessOnly(h, e, closeOk) ==
    IF e = NoExc THEN CloseQuietly(h, closeOk) ELSE h

\* the handle after the finally clause; e is the exception leaving the block
ManagedClose(h, e, closeOk) == CloseQuietly(h, closeOk)

\* a wrapper whose failing close raises out of the with statement
ManagedOutcomeCloseRaises(e, closeOk) ==
    IF e = NoExc /\ ~closeOk THEN HostException("close failed") ELSE e

\* the exception that leaves the with statement
ManagedOutcome(e, closeOk) == e

\* with managed_document(...) as doc: entered from a handler, or from
\* apply_presentation_template for the target (helper.py:1718)
ManagedOpen ==
    /\ \/ pc = "handler" /\ Kind(command.action) = "managed"
       \/ pc = "tp_open"
    /\ \E pre \in OpenPre, att \in OpenAttempts :
         LET r == open_document(pre, att) IN
         /\ hostRaised' = (hostRaised \/ r.raised)
         /\ IF r.doc
            THEN /\ mdoc' = "open"
                 /\ pc' = IF pc = "tp_open" THEN "tp_new" ELSE "body"
                 /\ exc' = exc
            ELSE /\ mdoc' = mdoc
                 /\ pc' = "return"
                 /\ exc' = r.exc
    /\ UNCHANGED << feVars, unitVars, gaveUp, sockVars, client_socket, command, ran, tdoc, ndoc, stored,
                    verifyFailed, leaked, result, response, sent,
                    sendRaised >>

(***************************************************************************)
(* The body of a handler inside its with block, up to store().             *)
(***************************************************************************)
DocTexts == { "", "text of the document" }

BodyEffect(a, ev, t) ==
    LET base == [next |-> "exit", exc |-> NoExc, result |-> PyNone,
                 raised |-> FALSE, vfail |-> FALSE, doc |-> "open"] IN
    CASE ev = "nocap" ->
           IF a \in NoCapFallsThrough
           THEN base
           ELSE [base EXCEPT !.exc =
                    HelperError("Document does not support this operation")]
      [] ev = "invalid" ->
           [base EXCEPT !.exc = HelperError("index out of range or not found")]
      [] ev = "fault_raise" ->
           [base EXCEPT !.exc = HostException("uno error"), !.raised = TRUE]
      [] ev = "fault_wrap" ->
           [base EXCEPT !.exc = HelperError("Failed: uno error"),
                        !.raised = TRUE]
      [] ev = "fault_swallow" ->
           [base EXCEPT !.next = "body", !.raised = TRUE]
      [] ev = "verify_fail" ->
           IF VerifyPolicy(a) = "abort"
           THEN [base EXCEPT !.exc = HelperError("verification failed"),
                             !.vfail = TRUE]
           ELSE [base EXCEPT !.next = "body", !.vfail = TRUE]
      [] ev = "textbox_fail" ->
           \* add_main_textbox closes doc before raising, helper.py:997-1006
           [base EXCEPT !.exc = HelperError("Error in add_main_textbox"),
                        !.raised = TRUE, !.doc = "closed"]
      [] OTHER ->
           IF a \in ReadOnly
           THEN [base EXCEPT !.result = Str(t)]
           ELSE [base EXCEPT !.next = "store"]

HandlerBody ==
    /\ pc = "body"
    /\ \E ev \in BodyEvents(command.action), t \in DocTexts :
         LET e == BodyEffect(command.action, ev, t) IN
         /\ pc' = e.next
         /\ exc' = e.exc
         /\ result' = e.result
         /\ hostRaised' = (hostRaised \/ e.raised)
         /\ verifyFailed' = (verifyFailed \/ e.vfail)
         /\ mdoc' = e.doc
    /\ UNCHANGED << feVars, unitVars, gaveUp, sockVars, client_socket, command, ran, tdoc, ndoc, stored,
                    leaked, response, sent,
                    sendRaised >>

\* doc.store() (doc.storeToURL in copy_document) and the return after it
Store ==
    /\ pc = "store"
    /\ \/ /\ stored' = TRUE
          /\ result' = SuccessMessage(command.action, verifyFailed)
          /\ UNCHANGED << exc, hostRaised >>
       \/ /\ hostRaised' = TRUE
          /\ exc' = HostException("store failed")
          /\ UNCHANGED << stored, result >>
    /\ pc' = "exit"
    /\ UNCHANGED << feVars, unitVars, gaveUp, sockVars, client_socket, command, ran, mdoc, tdoc, ndoc,
                    verifyFailed, leaked, response, sent,
                    sendRaised >>

\* leaving the with block of managed_document
Exit ==
    /\ pc = "exit"
    /\ \E closeOk \in BOOLEAN :
         /\ mdoc' = ManagedClose(mdoc, exc, closeOk)
         /\ exc' = ManagedOutcome(exc, closeOk)
    /\ pc' = IF command.action = "copy_document" /\ exc = NoExc
             THEN "post" ELSE "return"
    /\ UNCHANGED << feVars, unitVars, gaveUp, sockVars, client_socket, command, ran, tdoc, ndoc, stored,
                    hostRaised, verifyFailed, leaked, result, response, sent,
                    sendRaised >>

\* copy_document after its with block, helper.py:312-318
CopyPost ==
    /\ pc = "post"
    /\ \/ UNCHANGED << exc >>
       \/ exc' = HostException("shutil.copy2 failed")
    /\ pc' = "return"
    /\ UNCHANGED << feVars, unitVars, gaveUp, sockVars, client_socket, command, ran, docVars, result,
                    response, sent,
                    sendRaised >>

(***************************************************************************)
(* ping (helper.py:2860) and list_documents (helper.py:226-292): no host.  *)
(***************************************************************************)
Ping ==
    /\ pc = "handler"
    /\ Kind(command.action) = "ping"
    /\ result' = Str(SuccessText("ping"))
    /\ pc' = "return"
    /\ UNCHANGED << feVars, unitVars, gaveUp, sockVars, client_socket, command, ran, docVars, exc,
                    response, sent,
                    sendRaised >>

ListDocuments ==
    /\ pc = "handler"
    /\ Kind(command.action) = "list"
    /\ \/ /\ exc' = HelperError("Directory not found: D")
          /\ UNCHANGED result
       \/ /\ exc' = HostException("os error")
          /\ UNCHANGED result
       \/ /\ \E m \in { "No documents found in the directory.",
                        "Found N documents in D" } : result' = Str(m)
          /\ UNCHANGED exc
    /\ pc' = "return"
    /\ UNCHANGED << feVars, unitVars, gaveUp, sockVars, client_socket, command, ran, docVars, response,
                    sent,
                    sendRaised >>

(***************************************************************************)
(* create_document, helper.py:167-224.  The document is loaded without     *)
(* the wrapper; close is called only after a successful storeToURL.        *)
(***************************************************************************)
CreateLoad ==
    /\ pc = "handler"
    /\ Kind(command.action) = "create"
    /\ \/ /\ \E m \in { "Failed to create directory for F",
                        "Failed to connect to LibreOffice desktop",
                        "Invalid document type",
                        "Failed to create document" } :
                exc' = HelperError(m)
          /\ pc' = "return"
          /\ UNCHANGED << ndoc, hostRaised >>
       \/ /\ exc' = HostException("load failed")
          /\ hostRaised' = TRUE
          /\ pc' = "return"
          /\ UNCHANGED ndoc
       \/ /\ ndoc' = "open"
          /\ pc' = "cd_meta"
          /\ UNCHANGED << exc, hostRaised >>
    /\ UNCHANGED << feVars, unitVars, gaveUp, sockVars, client_socket, command, ran, mdoc, tdoc, stored,
                    verifyFailed, leaked, result, response, sent,
                    sendRaised >>

\* the step of create_document after the load; the except clause at
\* helper.py:221-224 logs and re-raises, nothing closes doc there
CreateStep ==
    /\ pc \in { "cd_meta", "cd_store", "cd_close" }
    /\ \/ \* the call at this step raises
          /\ exc' = HostException("uno error")
          /\ hostRaised' = TRUE
          /\ pc' = "return"
          /\ ndoc' = IF pc = "cd_close" THEN "vetoed" ELSE ndoc
          /\ UNCHANGED stored
       \/ \* setattr of the metadata / storeToURL / close returns
          /\ pc' = CASE pc = "cd_meta" -> "cd_store"
                     [] pc = "cd_store" -> "cd_close"
                     [] OTHER -> "cd_verify"
          /\ stored' = (stored \/ pc = "cd_store")
          /\ ndoc' = IF pc = "cd_close" THEN "closed" ELSE ndoc
          /\ UNCHANGED << exc, hostRaised >>
    /\ UNCHANGED << feVars, unitVars, gaveUp, sockVars, client_socket, command, ran, mdoc, tdoc,
                    verifyFailed, leaked, result, response, sent,
                    sendRaised >>

\* os.path.exists(file_path) after the sleep, helper.py:214-219
CreateVerify ==
    /\ pc = "cd_verify"
    /\ \/ /\ result' = SuccessMessage("create_document", FALSE)
          /\ UNCHANGED exc
       \/ /\ exc' = HelperError("Document creation attempted, but file not found")
          /\ UNCHANGED result
    /\ pc' = "return"
    /\ UNCHANGED << feVars, unitVars, gaveUp, sockVars, client_socket, command, ran, docVars, response,
                    sent,
                    sendRaised >>

(***************************************************************************)
(* apply_presentation_template, helper.py:1663-2067.                       *)
(***************************************************************************)
\* the search for a template and the attempt to load one, helper.py:1678-1715
TemplateFind ==
    /\ pc = "handler"
    /\ Kind(command.action) = "template"
    /\ \/ /\ exc' = HelperError("Could not find template")
          /\ \E r \in BOOLEAN : hostRaised' = r
          /\ pc' = "return"
          /\ UNCHANGED tdoc
       \/ /\ tdoc' = "open"
          /\ \E r \in BOOLEAN : hostRaised' = r
          /\ pc' = "tp_break"
          /\ UNCHANGED exc
    /\ UNCHANGED << feVars, unitVars, gaveUp, sockVars, client_socket, command, ran, mdoc, ndoc, stored,
                    verifyFailed, leaked, result, response, sent,
                    sendRaised >>

\* break out of the with block of the template, helper.py:1695-1699
TemplateBreak ==
    /\ pc = "tp_break"
    /\ \E closeOk \in BOOLEAN : tdoc' = ManagedClose(tdoc, NoExc, closeOk)
    /\ pc' = "tp_open"
    /\ UNCHANGED << feVars, unitVars, gaveUp, sockVars, client_socket, command, ran, mdoc, ndoc, stored,
                    hostRaised, verifyFailed, leaked, outVars >>

\* valid_presentation(target_doc) and the load of new_doc, helper.py:1719-1743
TemplateNew ==
    /\ pc = "tp_new"
    /\ \/ /\ exc' = HelperError("Document does not support slides/pages")
          /\ pc' = "exit"
          /\ UNCHANGED << ndoc, hostRaised >>
       \/ /\ \E m \in { "Failed to get UNO desktop",
                        "Failed to create new document from template" } :
                exc' = HelperError(m)
          /\ pc' = "tp_finally"
          /\ UNCHANGED << ndoc, hostRaised >>
       \/ /\ exc' = HostException("load failed")
          /\ hostRaised' = TRUE
          /\ pc' = "tp_finally"
          /\ UNCHANGED ndoc
       \/ /\ ndoc' = "open"
          /\ pc' = "tp_copy"
          /\ UNCHANGED << exc, hostRaised >>
    /\ UNCHANGED << feVars, unitVars, gaveUp, sockVars, client_socket, command, ran, mdoc, tdoc, stored,
                    verifyFailed, leaked, result, response, sent,
                    sendRaised >>

\* what the copy loop and the critical validation do with one kind of event,
\* helper.py:1745-2030: copy_errors and a failed read-back end in HelperError
\* before storeToURL
CopyEffect(ev) ==
    CASE ev = "ok" ->
           [next |-> "tp_store", exc |-> NoExc, raised |-> FALSE, vfail |-> FALSE]
      [] ev = "fault_swallow" ->
           [next |-> "tp_copy", exc |-> NoExc, raised |-> TRUE, vfail |-> FALSE]
      [] ev = "fault_raise" ->
           [next |-> "tp_finally", exc |-> HostException("uno error"),
            raised |-> TRUE, vfail |-> FALSE]
      [] ev = "copy_error" ->
           [next |-> "tp_finally", exc |-> HelperError("Content copying failed"),
            raised |-> TRUE, vfail |-> FALSE]
      [] ev = "verify_fail" ->
           [next |-> "tp_finally", exc |-> HelperError("Content copying failed"),
            raised |-> FALSE, vfail |-> TRUE]
      [] OTHER ->
           [next |-> "tp_finally", exc |-> HelperError("slide count mismatch"),
            raised |-> FALSE, vfail |-> FALSE]

CopyEvents == { "ok", "fault_swallow", "fault_raise", "copy_error",
                "verify_fail", "count_mismatch" }

TemplateCopy ==
    /\ pc = "tp_copy"
    /\ \E ev \in CopyEvents :
         LET e == CopyEffect(ev) IN
         /\ pc' = e.next
         /\ exc' = e.exc
         /\ hostRaised' = (hostRaised \/ e.raised)
         /\ verifyFailed' = (verifyFailed \/ e.vfail)
    /\ UNCHANGED << feVars, unitVars, gaveUp, sockVars, client_socket, command, ran, mdoc, tdoc, ndoc,
                    stored, leaked, result, response, sent,
                    sendRaised >>

\* new_doc.storeToURL, helper.py:2034-2045
TemplateStore ==
    /\ pc = "tp_store"
    /\ \/ /\ stored' = TRUE
          /\ result' = SuccessMessage("apply_presentation_template", FALSE)
          /\ UNCHANGED << exc, hostRaised >>
       \/ /\ hostRaised' = TRUE
          /\ exc' = HelperError("Failed to save templated document")
          /\ UNCHANGED << stored, result >>
    /\ pc' = "tp_finally"
    /\ UNCHANGED << feVars, unitVars, gaveUp, sockVars, client_socket, command, ran, mdoc, tdoc, ndoc,
                    verifyFailed, leaked, response, sent,
                    sendRaised >>

\* finally: new_doc.close(True) under a bare except, helper.py:2053-2060
TemplateFinally ==
    /\ pc = "tp_finally"
    /\ \E closeOk \in BOOLEAN : ndoc' = CloseQuietly(ndoc, closeOk)
    /\ pc' = "exit"
    /\ UNCHANGED << feVars, unitVars, gaveUp, sockVars, client_socket, command, ran, mdoc, tdoc, stored,
                    hostRaised, verifyFailed, leaked, outVars >>

(***************************************************************************)
(* Back in safe_execute and the main loop.                                 *)
(***************************************************************************)
\* safe_execute, helper.py:2702-2718: HelperError passes, anything else is
\* wrapped in a HelperError naming the operation
safe_execute(op, e) ==
    IF e.type = "Exception"
    THEN HelperError("Error in " \o op \o ": " \o e.msg)
    ELSE e

\* handles still open in the host when the handler's frame is left
StillOpen == Cardinality({ h \in { "m", "t", "n" } :
                 \/ h = "m" /\ mdoc = "open"
                 \/ h = "t" /\ tdoc = "open"
                 \/ h = "n" /\ ndoc = "open" })

Return ==
    /\ pc = "return"
    /\ exc' = safe_execute(command.action, exc)
    /\ leaked' = IF leaked + StillOpen > MaxLeaks THEN MaxLeaks
                 ELSE leaked + StillOpen
    /\ pc' = "respond"
    /\ UNCHANGED << feVars, unitVars, gaveUp, sockVars, client_socket, command, ran, mdoc, tdoc, ndoc,
                    stored, hostRaised, verifyFailed, result, response, sent,
                    sendRaised >>

\* a response that carries str(e) alone
BuildResponseBare(e, r) ==
    IF e = NoExc
    THEN Response("success", r)
    ELSE Response("error", Str(e.msg))

\* the response dict, helper.py:2909-2926
BuildResponse(e, r) ==
    IF e = NoExc
    THEN Response("success", r)
    ELSE Response("error", Str("Error: " \o e.msg))

Respond ==
    /\ pc = "respond"
    /\ response' = BuildResponse(exc, result)
    /\ pc' = "send"
    /\ UNCHANGED << feVars, unitVars, gaveUp, sockVars, client_socket, command, ran, docVars, exc,
                    result, sent,
                    sendRaised >>

\* a send whose exception leaves the while loop
AfterSendErrorFatal == "stopped"

\* where the loop goes when the send at helper.py:2929 raises: the clause
\* "except Exception" of the same iteration, helper.py:2944
AfterSendError == "send_last"

\* client_socket.send(json.dumps(response)), helper.py:2929; when it raises,
\* the outer except builds an error response, helper.py:2944-2961
Send ==
    /\ pc = "send"
    /\ \/ /\ sent' = response
          /\ pc' = "close"
          /\ UNCHANGED << response, sendRaised >>
       \/ /\ response' = Response("error", Str("send failed"))
          /\ sendRaised' = TRUE
          /\ pc' = AfterSendError
          /\ UNCHANGED sent
    /\ UNCHANGED << feVars, unitVars, gaveUp, sockVars, client_socket, command, ran, docVars, exc,
                    result >>

\* the send inside an except clause, under try/except: pass
SendLast ==
    /\ pc = "send_last"
    /\ \/ sent' = response
       \/ UNCHANGED sent
    /\ pc' = "close"
    /\ UNCHANGED << feVars, unitVars, gaveUp, sockVars, client_socket, command, ran, docVars, exc,
                    result, response, sendRaised >>

\* finally: client_socket.close(), helper.py:2962-2964; the iteration's
\* locals are dead from here on
Close ==
    /\ pc = "close"
    /\ sockState' = [sockState EXCEPT ![client_socket] = "closed"]
    /\ client_socket' = 0
    /\ pc' = "accept"
    /\ command' = NoCommand
    /\ ran' = FALSE
    /\ mdoc' = "none"
    /\ tdoc' = "none"
    /\ ndoc' = "none"
    /\ stored' = FALSE
    /\ hostRaised' = FALSE
    /\ verifyFailed' = FALSE
    /\ exc' = NoExc
    /\ result' = PyNone
    /\ response' = NoResp
    /\ sent' = NoResp
    /\ sendRaised' = FALSE
    /\ gaveUp' = [gaveUp EXCEPT ![client_socket] = "no"]
    /\ UNCHANGED << feVars, unitVars, sockBody, leaked >>

Next ==
    \/ Connect
    \/ Accept
    \/ Recv
    \/ Parse
    \/ Ping
    \/ ListDocuments
    \/ ManagedOpen
    \/ HandlerBody
    \/ Store
    \/ Exit
    \/ CopyPost
    \/ CreateLoad
    \/ CreateStep
    \/ CreateVerify
    \/ TemplateFind
    \/ TemplateBreak
    \/ TemplateNew
    \/ TemplateCopy
    \/ TemplateStore
    \/ TemplateFinally
    \/ Return
    \/ Respond
    \/ Send
    \/ SendLast
    \/ Close

Spec == Init /\ [][Next]_vars

(***************************************************************************)
(* Callers that stop waiting.  call_libreoffice_helper gives its socket a  *)
(* 30 s timeout (libre.py:123): when connect, send or recv takes longer    *)
(* the caller gets "Connection to helper timed out" and goes on.  Nothing  *)
(* in the executor reads the state of the peer: the bytes already written  *)
(* stay on the connection.                                                 *)
(***************************************************************************)
NoAnswerYet(i) ==
    \/ sockState[i] = "queued"
    \/ sockState[i] = "accepted" /\ sent = NoResp

ClientTimeout ==
    /\ \E i \in ConnIds :
         /\ NoAnswerYet(i)
         /\ gaveUp[i] = "no"
         /\ gaveUp' = [gaveUp EXCEPT ![i] =
                          IF sockState[i] = "queued" THEN "queued"
                          ELSE "serving"]
    /\ UNCHANGED << feVars, unitVars, sockVars, pc, client_socket, command, ran, docVars,
                    outVars >>

\* one step of the executor's own thread
ExecStep ==
    \/ Accept \/ Recv \/ Parse \/ Ping \/ ListDocuments \/ ManagedOpen
    \/ HandlerBody \/ Store \/ Exit \/ CopyPost \/ CreateLoad \/ CreateStep
    \/ CreateVerify \/ TemplateFind \/ TemplateBreak \/ TemplateNew
    \/ TemplateCopy \/ TemplateStore \/ TemplateFinally \/ Return \/ Respond
    \/ Send \/ SendLast \/ Close

\* the commands of the callers followed here: front-end call sites, one or
\* more for each kind of handler
CallerActions ==
    { "ping", "list_documents", "create_document",
      "apply_presentation_template", "copy_document" }

CallerBodies == { b \in ToolBodies : b.action \in CallerActions }

CallerConnect == ConnectWith(CallerBodies)

NextCancel ==
    \/ CallerConnect
    \/ ExecStep
    \/ ClientTimeout

\* the executor's thread keeps running and every host call returns or raises
SpecCancel == Init /\ [][NextCancel]_vars /\ WF_vars(ExecStep)

\* the connections that end in each of the ways an iteration of the loop
\* can end: nothing received, no JSON, bytes that do not decode, a silent
\* peer, and commands whose handlers return or raise
ServeBodies ==
    { b \in RawBodies : b.form \in { "empty", "garbage", "badutf8", "silent" } }
    \cup { b \in ToolBodies : b.action \in CallerActions \cup { "add_text" } }

ServeConnect == ConnectWith(ServeBodies)

NextServe ==
    \/ ServeConnect
    \/ ExecStep

\* the serving loop with an executor thread that keeps running
SpecServe == Init /\ [][NextServe]_vars /\ WF_vars(ExecStep)

(***************************************************************************)
(* The front-end, libre.py.  A call site is named by the action it sends.  *)
(***************************************************************************)
\* libre.py:28-40
impress_extensions ==
    { ".odp", ".pptx", ".ppsx", ".ppmx", ".potx", ".pomx", ".ppt", ".pps",
      ".ppm", ".pot", ".pom" }

\* the last characters of the paths given to a tool here
PathExts == { ".odp", ".ODP", ".pptx", ".odt" }

Paths == { NoPath } \cup { [empty |-> FALSE, ext |-> e] : e \in PathExts }

\* str.lower() on the end of a path
lower(p) == IF p.ext = ".ODP" THEN [p EXCEPT !.ext = ".odp"] ELSE p

\* str.endswith(exts)
endswith(p, exts) == ~p.empty /\ p.ext \in exts

\* the tools that check file_path.lower().endswith(impress_extensions)
PresentationTools ==
    { "edit_slide_content", "edit_slide_title", "delete_slide",
      "apply_presentation_template", "format_slide_content",
      "format_slide_title", "insert_slide_image" }

\* call sites without a return value: main's ping, libre.py:1451
MainSites == { "ping" }

\* level arguments given to add_heading; every other call keeps 1
HeadingLevels(a) == IF a = "add_heading" THEN { 0, 1, 6, 7 } ELSE { 1 }

\* the text in front of str(e) in a tool's "except Exception" clause
FailPrefix(a) ==
    CASE a = "create_document" -> "Failed to create document: "
      [] a = "read_text_document" -> "Failed to open document: "
      [] a = "get_document_properties" -> "Failed to get document properties: "
      [] a = "list_documents" -> "Failed to list documents: "
      [] a = "copy_document" -> "Failed to copy document: "
      [] a = "add_text" -> "Failed to add text: "
      [] a = "add_heading" -> "Failed to add heading: "
      [] a = "add_paragraph" -> "Failed to add paragraph: "
      [] a = "add_table" -> "Failed to add table: "
      [] a = "insert_image" -> "Failed to insert image: "
      [] a = "insert_page_break" -> "Failed to insert page break: "
      [] a = "format_text" -> "Failed to format text: "
      [] a = "search_replace_text" -> "Failed to search and replace text: "
      [] a = "delete_text" -> "Failed to delete text: "
      [] a = "format_table" -> "Failed to format table: "
      [] a = "delete_paragraph" -> "Failed to delete paragraph: "
      [] a = "apply_document_style" -> "Failed to apply document style: "
      [] a = "read_presentation" -> "Failed to open presentation: "
      [] a = "add_slide" -> "Failed to add slide: "
      [] a = "edit_slide_content" -> "Failed to edit slide content: "
      [] a = "edit_slide_title" -> "Failed to edit slide title: "
      [] a = "delete_slide" -> "Failed to delete slide: "
      [] a = "apply_presentation_template" ->
             "Failed to apply presentation template: "
      [] a = "format_slide_content" -> "Failed to format slide content: "
      [] a = "format_slide_title" -> "Failed to format slide title: "
      [] a = "insert_slide_image" -> "Failed to insert slide image: "
      [] a = "open_text_document" -> "Failed to access document resource: "
      [] OTHER -> "Failed to check helper status"

\* the text in front of the message of a response that is no success
ErrorPrefix(a) ==
    IF a = "open_text_document"
    THEN "Failed to access document resource: "
    ELSE "Error: "

\* normalize_path, libre.py:91-105
normalize_path(p) ==
    IF p.empty THEN HostException("Empty file path provided") ELSE NoExc

\* a tool from its entry to its call of call_libreoffice_helper: ret is the
\* value of an early return, NoRet when the command is sent
ToolEntry(a, p, l) ==
    LET early(t) == [ret |-> Str(t)]
        normalized ==
            IF normalize_path(p) = NoExc
            THEN [ret |-> NoRet]
            ELSE early(FailPrefix(a) \o normalize_path(p).msg)
    IN
    CASE a \in MainSites -> [ret |-> NoRet]
      [] a = "create_document" ->
           \* an extension is appended to a filename without one
           [ret |-> NoRet]
      [] a = "add_slide" ->
           IF ~endswith(p, impress_extensions)
           THEN early("Error: file_path is not a presentation.")
           ELSE normalized
      [] a \in PresentationTools ->
           IF ~endswith(lower(p), impress_extensions)
           THEN early("Error: file_path is not a presentation file.")
           ELSE normalized
      [] a = "add_heading" ->
           IF normalize_path(p) # NoExc
           THEN normalized
           ELSE IF l < 1 \/ l > 6
           THEN early("Invalid heading level: L. Choose a level between 1 and 6.")
           ELSE normalized
      [] OTHER -> normalized

ToolCall ==
    /\ fpc = "idle"
    /\ \E a \in FrontEndActions, p \in Paths :
         \E l \in HeadingLevels(a) :
           /\ fcall' = [action |-> a, path |-> p, level |-> l]
           /\ fret' = ToolEntry(a, p, l).ret
           /\ fpc' = IF ToolEntry(a, p, l).ret = NoRet THEN "connect"
                     ELSE "done"
    /\ UNCHANGED << execVars, unitVars, fsock, freply, fexc, fcause, fraised, fresult >>

(***************************************************************************)
(* call_libreoffice_helper, libre.py:109-155.                              *)
(***************************************************************************)
\* exceptions of the socket calls
SocketTimeout == [type |-> "socket.timeout", msg |-> "timed out"]
ConnectionRefused == [type |-> "ConnectionRefusedError",
                      msg |-> "Connection refused"]

\* socket(), settimeout(30), connect(("localhost", 8765)), libre.py:122-124
FEConnect ==
    /\ fpc = "connect"
    /\ \/ /\ fsock' = "open"
          /\ fpc' = "send"
          /\ UNCHANGED << fexc, fcause >>
       \/ /\ fsock' = "open"
          /\ \E e \in { "refused", "timeout" } :
               /\ fcause' = e
               /\ fexc' = IF e = "refused" THEN ConnectionRefused
                          ELSE SocketTimeout
          /\ fpc' = "except"
       \/ \* socket.socket() itself fails
          /\ fexc' = HostException("os error")
          /\ fcause' = "other"
          /\ fpc' = "except"
          /\ UNCHANGED fsock
    /\ UNCHANGED << execVars, unitVars, fcall, freply, fraised, fresult, fret >>

\* json.dumps(command) and client_socket.send, libre.py:129-130
FESend ==
    /\ fpc = "send"
    /\ \/ /\ fpc' = "recv"
          /\ UNCHANGED << fexc, fcause >>
       \/ /\ \E e \in { SocketTimeout, HostException("Broken pipe") } :
               /\ fexc' = e
               /\ fcause' = IF e = SocketTimeout THEN "timeout" ELSE "other"
          /\ fpc' = "except"
    /\ UNCHANGED << execVars, unitVars, fcall, fsock, freply, fraised, fresult, fret >>

\* the actions whose success message carries the content of a document or a
\* directory listing, as long as that is
LongReplyActions == ReadOnly \cup { "list_documents" }

\* what the helper writes on the socket for a command with action a:
\* json.dumps of its response dict (ASCII, no padding), or nothing when both
\* of its sends failed
HelperResponses(a) ==
    IF ~HasHandler(a)
    THEN { BuildResponse(UnknownAction(a).exc, UnknownAction(a).result) }
    ELSE { BuildResponse(NoExc, SuccessMessage(a, FALSE)),
           BuildResponse(HelperError("Document not found: F"), PyNone),
           Response("error", Str("Invalid JSON received")) }
         \cup (IF a \in NoCapFallsThrough
               THEN { BuildResponse(NoExc, PyNone) } ELSE {})

HelperReplies(a) ==
    { [form |-> "object", jsonLen |-> n, padLen |-> 0, resp |-> r] :
        r \in HelperResponses(a),
        n \in IF a \in LongReplyActions
              THEN { SmallLen, RecvBuf, RecvBuf + 1 } ELSE { SmallLen } }
    \cup { [form |-> "empty", jsonLen |-> 0, padLen |-> 0, resp |-> NoResp] }

\* recv(16384).decode, close, and the test for an empty response,
\* libre.py:134-141
FERecv ==
    /\ fpc = "recv"
    /\ \/ /\ \E e \in { SocketTimeout, HostException("Connection reset") } :
               /\ fexc' = e
               /\ fcause' = IF e = SocketTimeout THEN "timeout" ELSE "other"
          /\ fpc' = "except"
          /\ UNCHANGED << fsock, freply, fresult >>
       \/ /\ \E r \in HelperReplies(fcall.action) :
               /\ freply' = r
               /\ IF Received(r) = 0
                  THEN /\ fresult' = Response("error",
                                              Str("Empty response from helper"))
                       /\ fcause' = "empty"
                       /\ fpc' = "tool"
                  ELSE /\ fpc' = "loads"
                       /\ UNCHANGED << fresult, fcause >>
          /\ fsock' = "closed"
          /\ UNCHANGED fexc
    /\ UNCHANGED << execVars, unitVars, fcall, fraised, fret >>

\* return json.loads(response_data), libre.py:143
FELoads ==
    /\ fpc = "loads"
    /\ IF ParsesAsJson(freply)
       THEN /\ fresult' = freply.resp
            /\ fpc' = "tool"
            /\ UNCHANGED << fexc, fcause >>
       ELSE /\ fexc' = HostException("Unterminated string")
            /\ fcause' = IF TotalLen(freply) > RecvBuf THEN "truncated"
                         ELSE "invalid"
            /\ fpc' = "except"
            /\ UNCHANGED fresult
    /\ UNCHANGED << execVars, unitVars, fcall, fsock, freply, fraised, fret >>

\* except clauses without the final "except Exception"
CallExceptNarrow(e) ==
    CASE e.type = "socket.timeout" ->
           [raised |-> FALSE,
            result |-> Response("error", Str("Connection to helper timed out"))]
      [] e.type = "ConnectionRefusedError" ->
           [raised |-> FALSE,
            result |-> Response("error",
                         Str("Connection refused. Is the helper script running?"))]
      [] OTHER -> [raised |-> TRUE, result |-> NoResp]

\* the except clauses of call_libreoffice_helper, libre.py:144-155
CallExcept(e) ==
    CASE e.type = "socket.timeout" ->
           [raised |-> FALSE,
            result |-> Response("error", Str("Connection to helper timed out"))]
      [] e.type = "ConnectionRefusedError" ->
           [raised |-> FALSE,
            result |-> Response("error",
                         Str("Connection refused. Is the helper script running?"))]
      [] OTHER ->
           [raised |-> FALSE,
            result |-> Response("error",
                         Str("Error communicating with helper: " \o e.msg))]

FEExcept ==
    /\ fpc = "except"
    /\ fraised' = CallExcept(fexc).raised
    /\ fresult' = CallExcept(fexc).result
    /\ fpc' = "tool"
    /\ UNCHANGED << execVars, unitVars, fcall, fsock, freply, fexc, fcause, fret >>

\* what a tool makes of the dict it got back
ToolReturn(a, r) ==
    IF a \in MainSites THEN NoRet
    ELSE IF r.status = "success" THEN r.message
    ELSE Str(ErrorPrefix(a) \o r.message.text)

\* the tool after call_libreoffice_helper, e.g. libre.py:271-277
FEReturn ==
    /\ fpc = "tool"
    /\ fret' = IF fraised
               THEN (IF fcall.action \in MainSites THEN NoRet
                     ELSE Str(FailPrefix(fcall.action) \o fexc.msg))
               ELSE ToolReturn(fcall.action, fresult)
    /\ fpc' = "done"
    /\ UNCHANGED << execVars, unitVars, fcall, fsock, freply, fexc, fcause, fraised,
                    fresult >>

\* the caller has the value; the locals of the call are dead
FEDone ==
    /\ fpc = "done"
    /\ fpc' = "idle"
    /\ fcall' = NoCall
    /\ fsock' = "none"
    /\ freply' = NoReply
    /\ fexc' = NoExc
    /\ fcause' = "none"
    /\ fraised' = FALSE
    /\ fresult' = NoResp
    /\ fret' = NoRet
    /\ UNCHANGED << execVars, unitVars >>

NextFE ==
    \/ ToolCall
    \/ FEConnect
    \/ FESend
    \/ FERecv
    \/ FELoads
    \/ FEExcept
    \/ FEReturn
    \/ FEDone

SpecFE == Init /\ [][NextFE]_vars

(***************************************************************************)
(* open_document applied to one file: what the path, the host connection   *)
(* and the load attempts do is chosen by the environment.                  *)
(***************************************************************************)
PathStates == { "ok", "nopath", "missing" }
ResolveOutcomes == [1..2 -> { "ok", "noconnect", "raise" }]

\* the steps of open_document before its loop, helper.py:136-146
OpenPreOf(ps, res) ==
    IF ps # "ok" THEN ps
    ELSE IF get_uno_desktop(res).desktop THEN "ok"
    ELSE "nodesktop"

OpenDocumentCall ==
    /\ \E ps \in PathStates, res \in ResolveOutcomes, att \in OpenAttempts :
         /\ args' = [fn |-> "open_document", path |-> ps, res |-> res,
                     att |-> att, pre |-> OpenPreOf(ps, res)]
         /\ retval' = [open |-> open_document(OpenPreOf(ps, res), att),
                       resolves |-> IF ps = "ok"
                                    THEN get_uno_desktop(res).resolves ELSE 0]
    /\ UNCHANGED << execVars, feVars, file >>

NextOpen == OpenDocumentCall

SpecOpen == Init /\ [][NextOpen]_vars

(***************************************************************************)
(* The handlers of text documents applied to one file.  file is what is    *)
(* stored at the path: Absent, or a document.  A text document is a        *)
(* sequence of elements, paragraphs and tables, as text.createEnumeration  *)
(* yields them; a table carries the shading and the character weight of    *)
(* its first row.  A handler loads the file, changes the loaded document   *)
(* and writes it back with store(); when it raises before store() the file *)
(* stays as it was.                                                        *)
(***************************************************************************)
\* helper.py:627  row.BackColor = 13421772
HeaderGray == 13421772
\* helper.py:638  row.BackColor = 16777215
White == 16777215
\* helper.py:635  cursor.CharWeight = 150
Bold == 150
\* helper.py:646  cursor.CharWeight = 100
Normal == 100
\* the host's BackColor of a row without fill, -1
NoFill == 0 - 1

\* bounds of the documents followed
MaxChars == 3
MaxElems == 2
MaxCalls == 3

Chars == { "a", "X" }
Para(t) == [t |-> "para", text |-> t, back |-> NoFill, weight |-> Normal]
Table(b, w) == [t |-> "table", text |-> << >>, back |-> b, weight |-> w]

\* a slide of a presentation; a new presentation has one
Slide == [t |-> "slide", text |-> << >>, back |-> NoFill, weight |-> Normal]

\* what loadComponentFromURL("private:factory/...") and storeToURL leave at
\* the path, helper.py:180-211
NewDocument(doc_type) ==
    IF doc_type = "text"
    THEN [kind |-> "text", body |-> << Para(<< >>) >>]
    ELSE IF doc_type = "impress"
    THEN [kind |-> "impress", body |-> << Slide >>]
    ELSE [kind |-> doc_type, body |-> << >>]

RECURSIVE CharCount(_)
CharCount(body) ==
    IF body = << >> THEN 0
    ELSE Len(Head(body).text) + CharCount(Tail(body))

\* text.getString(): the elements' texts with a line end between them
RECURSIVE getString(_)
getString(body) ==
    IF body = << >> THEN << >>
    ELSE IF Len(body) = 1 THEN body[1].text
    ELSE body[1].text \o << "\n" >> \o getString(Tail(body))

\* the Python string of a sequence of characters
RECURSIVE ToStr(_)
ToStr(s) == IF s = << >> THEN "" ELSE Head(s) \o ToStr(Tail(s))

\* hasattr(doc, "getText")
HasText(f) == f.kind = "text"

Paragraphs(body) == { k \in 1..Len(body) : body[k].t = "para" }
Tables(body) == { k \in 1..Len(body) : body[k].t = "table" }
First(S) == CHOOSE k \in S : \A j \in S : k <= j
Last(S) == CHOOSE k \in S : \A j \in S : j <= k

\* the outcome of a handler: the document to store (stored tells whether
\* store() was reached), the exception it raised, its return value, and for
\* a read the text it returned
Outcome(d, s, e, r, c) ==
    [doc |-> d, stored |-> s, exc |-> e, result |-> r, content |-> c]
Raises(f, e) == Outcome(f, FALSE, e, PyNone, << >>)

\* extract_text, helper.py:359-365
extract_text(f) ==
    IF HasText(f)
    THEN Outcome(f, FALSE, NoExc, Str(ToStr(getString(f.body))),
                 getString(f.body))
    ELSE Raises(f, HelperError("Document does not support text extraction"))

\* t ends in x
EndsIn(t, x) ==
    Len(t) >= Len(x) /\ SubSeq(t, Len(t) - Len(x) + 1, Len(t)) = x

\* an add_text that leaves alone a text that already ends in the text to add
add_text_once(f, x, position) ==
    IF ~HasText(f)
    THEN Raises(f, HelperError("Document does not support text insertion"))
    ELSE LET k == IF position \in { "start", "cursor" }
                  THEN First(Paragraphs(f.body))
                  ELSE Last(Paragraphs(f.body))
             t == IF position \in { "start", "cursor" }
                  THEN x \o f.body[k].text
                  ELSE IF EndsIn(f.body[k].text, x) THEN f.body[k].text
                  ELSE f.body[k].text \o x
         IN Outcome([f EXCEPT !.body[k].text = t], TRUE, NoExc,
                    Str("Text added to F"), << >>)

\* add_text, helper.py:367-385: createTextCursor() stands at the start of
\* the text, so "cursor" inserts where "start" does
add_text(f, x, position) ==
    IF ~HasText(f)
    THEN Raises(f, HelperError("Document does not support text insertion"))
    ELSE LET k == IF position \in { "start", "cursor" }
                  THEN First(Paragraphs(f.body))
                  ELSE Last(Paragraphs(f.body))
             t == IF position \in { "start", "cursor" }
                  THEN x \o f.body[k].text
                  ELSE f.body[k].text \o x
         IN Outcome([f EXCEPT !.body[k].text = t], TRUE, NoExc,
                    Str("Text added to F"), << >>)

\* add_paragraph, helper.py:417-459: the text goes to the end and a
\* paragraph break follows it
add_paragraph(f, x) ==
    IF ~HasText(f)
    THEN Raises(f, HelperError("Document does not support paragraphs"))
    ELSE LET k == Last(Paragraphs(f.body)) IN
         Outcome([f EXCEPT !.body = [@ EXCEPT ![k].text = @ \o x]
                                       \o << Para(<< >>) >>],
                 TRUE, NoExc, Str("Paragraph added to F"), << >>)

\* text.removeTextContent: the host keeps a paragraph at the end of a text,
\* so removing the last one leaves an empty paragraph there
RemoveAt(s, k) ==
    LET r == SubSeq(s, 1, k - 1) \o SubSeq(s, k + 1, Len(s)) IN
    IF r # << >> /\ r[Len(r)].t = "para" THEN r ELSE r \o << Para(<< >>) >>

\* a delete_paragraph that takes an index past the end as the last element
delete_paragraph_clamped(f, idx) ==
    IF ~HasText(f)
    THEN Raises(f, HelperError("Document does not support paragraph deletion"))
    ELSE IF idx < 0
    THEN Raises(f, HelperError("Paragraph index I is out of range"))
    ELSE Outcome([f EXCEPT !.body =
                     RemoveAt(@, IF idx >= Len(@) THEN Len(@) ELSE idx + 1)],
                 TRUE, NoExc, Str("Paragraph at index I deleted from F"), << >>)

\* delete_paragraph, helper.py:782-809
delete_paragraph(f, idx) ==
    IF ~HasText(f)
    THEN Raises(f, HelperError("Document does not support paragraph deletion"))
    ELSE IF idx < 0 \/ idx >= Len(f.body)
    THEN Raises(f, HelperError("Paragraph index I is out of range"))
    ELSE Outcome([f EXCEPT !.body = RemoveAt(@, idx + 1)], TRUE, NoExc,
                 Str("Paragraph at index I deleted from F"), << >>)

\* add_table, helper.py:531-576: back is the shading the host gives a new
\* row; without getText the function ends without a return value
add_table(f, header_row, back) ==
    IF ~HasText(f)
    THEN Outcome(f, FALSE, NoExc, PyNone, << >>)
    ELSE LET k == Last(Paragraphs(f.body))
             tb == Table(back, IF header_row THEN Bold ELSE Normal)
         IN Outcome([f EXCEPT !.body = SubSeq(@, 1, k - 1) \o << tb >>
                                         \o SubSeq(@, k, Len(@))],
                    TRUE, NoExc, Str("Table added to F"), << >>)

\* a format_table whose header_row=False leaves the first row alone
format_table_keep(f, table_index, header_row) ==
    IF ~HasText(f)
    THEN Raises(f, HelperError("Document does not support table formatting"))
    ELSE IF Cardinality(Tables(f.body)) <= table_index
    THEN Raises(f, HelperError("Table index I is out of range"))
    ELSE IF table_index < 0
    THEN Raises(f, HostException("IndexOutOfBoundsException"))
    ELSE LET k == First(Tables(f.body)) IN
         Outcome(IF header_row = "true"
                 THEN [f EXCEPT !.body[k].back = HeaderGray,
                                !.body[k].weight = Bold]
                 ELSE f,
                 TRUE, NoExc, Str("Table formatted in F"), << >>)

\* format_table, helper.py:578-652, for format_options that hold at most
\* the key header_row ("none": the key is absent); the first table is the
\* only one here
format_table(f, table_index, header_row) ==
    IF ~HasText(f)
    THEN Raises(f, HelperError("Document does not support table formatting"))
    ELSE IF Cardinality(Tables(f.body)) <= table_index
    THEN Raises(f, HelperError("Table index I is out of range"))
    ELSE IF table_index < 0
    THEN Raises(f, HostException("IndexOutOfBoundsException"))
    ELSE LET k == First(Tables(f.body)) IN
         Outcome(CASE header_row = "true" ->
                        [f EXCEPT !.body[k].back = HeaderGray,
                                  !.body[k].weight = Bold]
                   [] header_row = "false" ->
                        [f EXCEPT !.body[k].back = White,
                                  !.body[k].weight = Normal]
                   [] OTHER -> f,
                 TRUE, NoExc, Str("Table formatted in F"), << >>)

\* create_document, helper.py:167-224, with Overwrite=True
create_text_document(f, doc_type) ==
    IF doc_type \notin { "text", "calc", "impress" }
    THEN Raises(f, HelperError("Invalid document type"))
    ELSE Outcome(NewDocument(doc_type), TRUE, NoExc,
                 Str("Successfully created document at: F"), << >>)

\* the handler the dispatch table gives to action a, applied to the file
Handler(a, p, f) ==
    CASE a = "create_document" -> create_text_document(f, p.doc_type)
      [] a = "read_text_document" -> extract_text(f)
      [] a = "add_text" -> add_text(f, p.text, p.position)
      [] a = "add_paragraph" -> add_paragraph(f, p.text)
      [] a = "delete_paragraph" -> delete_paragraph(f, p.index)
      [] a = "add_table" -> add_table(f, p.header_row, p.back)
      [] OTHER -> format_table(f, p.index, p.header_row)

\* the size of the document a handler would store stays within the bounds
Fits(d) == Len(d.body) <= MaxElems /\ CharCount(d.body) <= MaxChars

\* handle_command for action a with the file as it is: an unknown action is
\* answered without a handler; a handler other than create_document opens
\* the file first; host is "ok" or "raise" for a host call that raises
\* before store()
Command(a, p, f, host) ==
    IF ~HasHandler(a)
    THEN Outcome(f, FALSE, NoExc, UnknownAction(a).result, << >>)
    ELSE IF a # "create_document" /\ f = Absent
    THEN Raises(f, HelperError("Document not found: F"))
    ELSE IF host = "raise"
    THEN Raises(f, HostException("uno error"))
    ELSE Handler(a, p, f)

DocActions ==
    { "create_document", "read_text_document", "open_text_document",
      "add_text", "add_paragraph", "delete_paragraph", "add_table",
      "format_table" }

ArgTexts == { << "X" >>, << "a" >> }

\* the arguments a client gives with action a
ArgsOf(a) ==
    CASE a = "create_document" ->
           { [doc_type |-> t] : t \in { "text", "impress", "bogus" } }
      [] a \in { "add_text" } ->
           { [text |-> x, position |-> q] :
               x \in ArgTexts, q \in { "start", "cursor", "end", "middle" } }
      [] a = "add_paragraph" -> { [text |-> x] : x \in ArgTexts }
      [] a = "delete_paragraph" ->
           { [index |-> i] : i \in (0 - 1)..(MaxElems + 1) }
      [] a = "add_table" ->
           { [header_row |-> h, back |-> b] :
               h \in BOOLEAN, b \in { NoFill, White } }
      [] a = "format_table" ->
           { [index |-> i, header_row |-> h] :
               i \in (0 - 1)..1, h \in { "none", "true", "false" } }
      [] OTHER -> { [path |-> "F"] }

\* one command handled from recv to send; before is the file it found,
\* created the type of the document the command before it created,
\* reverts tells a format_table with header_row false that follows one with
\* header_row true on the same table (prior is the file that one found),
\* and calls counts the successive successful calls with the same arguments
DocCommand ==
    /\ \E a \in DocActions :
         \E p \in ArgsOf(a), host \in { "ok", "raise" } :
           LET o == Command(a, p, file, host)
               e == safe_execute(a, o.exc)
           IN
           /\ Fits(o.doc)
           /\ args' = [fn |-> a, p |-> p, host |-> host, before |-> file,
                       created |-> IF args.fn = "create_document"
                                      /\ retval.status = "success"
                                   THEN args.p.doc_type ELSE "",
                       reverts |-> /\ a = "format_table"
                                   /\ args.fn = "format_table"
                                   /\ retval.status = "success"
                                   /\ args.p.header_row = "true"
                                   /\ p.header_row = "false"
                                   /\ p.index = args.p.index,
                       prior |-> IF a = "format_table"
                                    /\ args.fn = "format_table"
                                 THEN args.before ELSE file,
                       calls |-> IF args.fn = a /\ args.p = p /\ o.stored
                                    /\ retval.status = "success"
                                    /\ args.calls < MaxCalls
                                 THEN args.calls + 1 ELSE 1]
           /\ retval' = [status |-> BuildResponse(e, o.result).status,
                         message |-> BuildResponse(e, o.result).message,
                         content |-> o.content,
                         stored |-> o.stored]
           /\ file' = IF o.stored THEN o.doc ELSE file
    /\ UNCHANGED << execVars, feVars >>

NextDoc == DocCommand

SpecDoc == Init /\ [][NextDoc]_vars

(***************************************************************************)
(* list_documents, helper.py:226-292, as a function of what the directory  *)
(* path names and of what os.listdir returns for it.  A file name is a     *)
(* sequence of characters; Alphabet lists the characters used in ascending *)
(* order of code point, which is the order sorted() compares names by.     *)
(***************************************************************************)
\* bound of the directories followed
MaxFiles == 3

Alphabet == << ".", "A", "D", "O", "T", "a", "c", "d", "e", "f", "g", "l",
               "o", "p", "r", "s", "t", "v", "x" >>
Code(c) == CHOOSE i \in 1..Len(Alphabet) : Alphabet[i] = c

\* str.lower() on the characters used
LowerChar(c) ==
    CASE c = "A" -> "a" [] c = "D" -> "d" [] c = "O" -> "o" [] c = "T" -> "t"
      [] OTHER -> c
LowerChars(s) == [i \in 1..Len(s) |-> LowerChar(s[i])]

\* os.path.splitext(name)[1]: from the last dot on, unless only dots
\* come before it
splitext(name) ==
    LET dots == { i \in 1..Len(name) : name[i] = "." } IN
    IF dots = { } THEN << >>
    ELSE LET d == Last(dots) IN
         IF \E i \in 1..(d - 1) : name[i] # "."
         THEN SubSeq(name, d, Len(name)) ELSE << >>

\* helper.py:234-238
extensions ==
    { << ".", "o", "d", "t" >>, << ".", "o", "d", "s" >>,
      << ".", "o", "d", "p" >>, << ".", "o", "d", "g" >>,
      << ".", "d", "o", "c" >>, << ".", "d", "o", "c", "x" >>,
      << ".", "x", "l", "s" >>, << ".", "x", "l", "s", "x" >>,
      << ".", "p", "p", "t" >>, << ".", "p", "p", "t", "x" >>,
      << ".", "r", "t", "f" >>, << ".", "t", "x", "t" >>,
      << ".", "c", "s", "v" >>, << ".", "p", "d", "f" >> }

\* the names a directory may hold
FileNames ==
    { << "a", ".", "o", "d", "t" >>, << "A", ".", "O", "D", "T" >>,
      << "d", ".", "d", "o", "c", "x" >>, << "c", ".", "p", "d", "f" >>,
      << "c", ".", "e", "x", "e" >>, << ".", "o", "d", "t" >>,
      << "a", ".", "o", "d", "t", ".", "o", "d" >> }

\* an entry of the directory: its name and whether os.path.isfile holds
Entry(n, r) == [name |-> n, isfile |-> r]

\* str < str of Python: by the first character that differs, a proper
\* prefix first
RECURSIVE NameLess(_, _)
NameLess(a, b) ==
    IF b = << >> THEN FALSE
    ELSE IF a = << >> THEN TRUE
    ELSE IF Head(a) # Head(b) THEN Code(Head(a)) < Code(Head(b))
    ELSE NameLess(Tail(a), Tail(b))

\* sorted(docs, key=name): each document goes before the first one sorted
\* so far that has a greater name
RECURSIVE Insert(_, _)
Insert(d, s) ==
    IF s = << >> THEN << d >>
    ELSE IF NameLess(d, Head(s)) THEN << d >> \o s
    ELSE << Head(s) >> \o Insert(d, Tail(s))

RECURSIVE sorted(_)
sorted(docs) ==
    IF docs = << >> THEN << >>
    ELSE Insert(docs[Len(docs)], sorted(SubSeq(docs, 1, Len(docs) - 1)))

\* a test of the extension that does not lower it
ListedAsSpelled(e) == e.isfile /\ splitext(e.name) \in extensions

\* helper.py:242-244: the entry is appended to docs
Listed(e) == e.isfile /\ LowerChars(splitext(e.name)) \in extensions

\* the loop of helper.py:240-269 over what os.listdir returned
RECURSIVE Collect(_)
Collect(listing) ==
    IF listing = << >> THEN << >>
    ELSE (IF Listed(Head(listing)) THEN << Head(listing).name >> ELSE << >>)
         \o Collect(Tail(listing))

\* what the path names: nothing, a file, or a directory; "nopath" is the
\* empty path, for which normalize_path returns None and os.path.exists
\* raises
DirKinds == { "nopath", "missing", "file", "dir" }

\* found is the number after "Found", 0 - 1 when the text returned is
\* "No documents found in the directory."
list_documents(kind, listing) ==
    IF kind = "nopath"
    THEN [exc |-> HostException("stat: path should be string, not NoneType"),
          found |-> 0 - 1, docs |-> << >>]
    ELSE IF kind # "dir"
    THEN [exc |-> HelperError("Directory not found: D"), found |-> 0 - 1,
          docs |-> << >>]
    ELSE LET docs == sorted(Collect(listing)) IN
         [exc |-> NoExc, found |-> IF docs = << >> THEN 0 - 1 ELSE Len(docs),
          docs |-> docs]

\* the orders in which os.listdir may return a directory of at most
\* MaxFiles entries with different names
Listings ==
    { s \in UNION { [1..n -> { Entry(nm, r) : nm \in FileNames, r \in BOOLEAN }]
                      : n \in 0..MaxFiles } :
        \A i, j \in 1..Len(s) : i # j => s[i].name # s[j].name }

\* one call of the function, which keeps nothing from call to call
ListDocumentsCall ==
    /\ args = NoArgs
    /\ \E kind \in DirKinds, listing \in Listings :
         LET r == list_documents(kind, listing) IN
         /\ kind # "dir" => listing = << >>
         /\ args' = [fn |-> "list_documents", kind |-> kind,
                     listing |-> listing]
         /\ retval' = [status |-> BuildResponse(safe_execute("list_documents",
                                                             r.exc),
                                                Str("listing")).status,
                       found |-> r.found, docs |-> r.docs]
    /\ UNCHANGED << execVars, feVars, file >>

NextList == ListDocumentsCall

SpecList == Init /\ [][NextList]_vars

(***************************************************************************)
(* The choice of the shape to edit in edit_slide_content, helper.py:       *)
(* 1235-1362, and in edit_slide_title, helper.py:1422-1578, as functions   *)
(* of the shapes of the slide.  What the functions read of a shape: its    *)
(* type, whether it has getText, its PresentationObject (NoAttr when the   *)
(* attribute is missing), its Name, its Position.Y and its text; broken is *)
(* a shape whose examination raises, which the loop logs and passes over.  *)
(***************************************************************************)
\* bound of the slides followed
MaxShapes == 2

\* helper.py:1324, 1478, 1515: the lower edge of the title area
TitleAreaY == 3000
\* helper.py:1529: the middle of the slide
TopHalfY == 10000
\* helper.py:955-956, 1559-1560: where a new content shape and a new title shape go
NewContentY == 6000
NewTitleY == 2000
NewShapeX == 2000

NoAttr == 0 - 1

Shape(ty, gt, po, nm, y, tx, br) ==
    [type |-> ty, getText |-> gt, pres |-> po, name |-> nm, y |-> y,
     text |-> tx, broken |-> br]

\* the shapes a slide may hold; for those the functions settle by type or
\* pass over, one setting of the other attributes
Shapes ==
    { Shape(ty, TRUE, po, nm, y, tx, FALSE) :
        ty \in { "TextShape", "CustomShape" }, po \in { NoAttr, 0, 2 },
        nm \in { "absent", "Title 1", "Content 2", "Text Header", "Shape 3" },
        y \in { 2000, TitleAreaY, 5000, 12000 },
        tx \in { "", "short", "long" } }
    \cup { Shape(ty, TRUE, NoAttr, "absent", 2000, "", FALSE) :
             ty \in { "OutlinerShape", "TitleTextShape" } }
    \cup { Shape("GraphicObjectShape", FALSE, NoAttr, "Image 1", 5000, "",
                 FALSE),
           Shape("TextShape", TRUE, NoAttr, "absent", 5000, "", TRUE) }

\* the keywords found in shape.Name.lower()
KeywordsIn(name) ==
    CASE name = "Title 1" -> { "title" }
      [] name = "Content 2" -> { "content" }
      [] name = "Text Header" -> { "text", "header" }
      [] OTHER -> { }

Info(i, p) == [index |-> i, priority |-> p]

\* a membership test that never finds the shape
NeverListed(acc, i) == FALSE

\* any(info['shape'] == shape for info in ...)
AlreadyListed(acc, i) == \E k \in 1..Len(acc) : acc[k].index = i

\* the fallback of helper.py:1338-1341 and 1530-1533
Fallback(acc, i) ==
    IF AlreadyListed(acc, i) THEN acc ELSE Append(acc, Info(i, 6))

\* one round of the loop of edit_slide_content for shape sh at index i
ExamineContent(sh, i, acc) ==
    IF sh.broken \/ ~sh.getText THEN acc
    ELSE IF sh.type = "OutlinerShape" THEN Append(acc, Info(i, 1))
    ELSE IF sh.type = "TitleTextShape" THEN acc
    ELSE IF sh.pres \in { 2, 3, 4, 5 } THEN Append(acc, Info(i, 2))
    ELSE IF sh.type = "TextShape" THEN Append(acc, Info(i, 3))
    ELSE IF sh.name # "absent" /\ "title" \in KeywordsIn(sh.name) THEN acc
    ELSE IF sh.name # "absent"
            /\ KeywordsIn(sh.name) \cap { "content", "text", "outline", "body" }
                 # { }
    THEN Append(acc, Info(i, 4))
    ELSE IF sh.y > TitleAreaY
    THEN Fallback(Append(acc, Info(i, IF sh.text # "" THEN 4 ELSE 5)), i)
    ELSE Fallback(acc, i)

\* one round of the loop of edit_slide_title
ExamineTitle(sh, i, acc) ==
    IF sh.broken \/ ~sh.getText THEN acc
    ELSE IF sh.type = "TitleTextShape" THEN Append(acc, Info(i, 1))
    ELSE IF sh.type = "OutlinerShape" THEN acc
    ELSE IF sh.pres \in { 0, 1 } THEN Append(acc, Info(i, 2))
    ELSE IF sh.type = "TextShape" /\ sh.y < TitleAreaY
    THEN Append(acc, Info(i, 3))
    ELSE IF sh.name # "absent"
            /\ KeywordsIn(sh.name) \cap { "content", "body", "outline" } # { }
    THEN acc
    ELSE IF sh.name # "absent"
            /\ KeywordsIn(sh.name) \cap { "title", "heading", "header" } # { }
    THEN Append(acc, Info(i, 4))
    ELSE LET a5 == IF sh.y < TitleAreaY
                   THEN Append(acc, Info(i, IF sh.text = "short" THEN 4 ELSE 5))
                   ELSE acc
         IN IF sh.y < TopHalfY THEN Fallback(a5, i) ELSE a5

\* one round of the loop of format_slide_content, helper.py:2103-2170: a
\* name holding "title" only fails the name test, text does not raise the
\* priority, and there is no fallback
ExamineFormatContent(sh, i, acc) ==
    IF sh.broken \/ ~sh.getText THEN acc
    ELSE IF sh.type = "OutlinerShape" THEN Append(acc, Info(i, 1))
    ELSE IF sh.type = "TitleTextShape" THEN acc
    ELSE IF sh.pres \in { 2, 3, 4, 5 } THEN Append(acc, Info(i, 2))
    ELSE IF sh.type = "TextShape" THEN Append(acc, Info(i, 3))
    ELSE IF sh.name # "absent" /\ "title" \notin KeywordsIn(sh.name)
            /\ KeywordsIn(sh.name) \cap { "content", "text", "outline", "body" }
                 # { }
    THEN Append(acc, Info(i, 4))
    ELSE IF sh.y > TitleAreaY THEN Append(acc, Info(i, 5))
    ELSE acc

\* one round of the loop of format_slide_title, helper.py:2320-2388
ExamineFormatTitle(sh, i, acc) ==
    IF sh.broken \/ ~sh.getText THEN acc
    ELSE IF sh.type = "TitleTextShape" THEN Append(acc, Info(i, 1))
    ELSE IF sh.type = "OutlinerShape" THEN acc
    ELSE IF sh.pres \in { 0, 1 } THEN Append(acc, Info(i, 2))
    ELSE IF sh.type = "TextShape" /\ sh.y < TitleAreaY
    THEN Append(acc, Info(i, 3))
    ELSE IF sh.name # "absent"
            /\ KeywordsIn(sh.name) \cap { "title", "heading", "header" } # { }
    THEN Append(acc, Info(i, 4))
    ELSE IF sh.y < TitleAreaY THEN Append(acc, Info(i, 5))
    ELSE acc

\* the first pass over the shapes 1..k of the slide, what: "content", "title"
\* for the edit functions, "format_content", "format_title" for the format
\* functions
RECURSIVE Candidates(_, _, _)
Candidates(what, slide, k) ==
    IF k = 0 THEN << >>
    ELSE LET acc == Candidates(what, slide, k - 1) IN
         CASE what = "content" -> ExamineContent(slide[k], k, acc)
           [] what = "title" -> ExamineTitle(slide[k], k, acc)
           [] what = "format_content" -> ExamineFormatContent(slide[k], k, acc)
           [] what = "format_title" -> ExamineFormatTitle(slide[k], k, acc)

\* the key (priority, index) of list.sort
KeyLess(a, b) ==
    \/ a.priority < b.priority
    \/ a.priority = b.priority /\ a.index < b.index

RECURSIVE InsertInfo(_, _)
InsertInfo(d, s) ==
    IF s = << >> THEN << d >>
    ELSE IF KeyLess(d, Head(s)) THEN << d >> \o s
    ELSE << Head(s) >> \o InsertInfo(d, Tail(s))

RECURSIVE SortInfos(_)
SortInfos(l) ==
    IF l = << >> THEN << >>
    ELSE InsertInfo(l[Len(l)], SortInfos(SubSeq(l, 1, Len(l) - 1)))

\* the shape the function edits: the first of the sorted candidates, or a
\* new shape added to the slide when there is none; chosen is its index,
\* the slide's first shape having index 1
select_shape(what, slide) ==
    LET all == SortInfos(Candidates(what, slide, Len(slide))) IN
    IF all # << >>
    THEN [all |-> all, chosen |-> all[1].index, created |-> FALSE,
          x |-> 0, y |-> 0]
    ELSE [all |-> all, chosen |-> Len(slide) + 1, created |-> TRUE,
          x |-> NewShapeX,
          y |-> IF what = "content" THEN NewContentY ELSE NewTitleY]

Slides == UNION { [1..n -> Shapes] : n \in 0..MaxShapes }

\* one call of edit_slide_content on a slide
EditSlideContentCall ==
    /\ args = NoArgs
    /\ \E slide \in Slides :
         /\ args' = [fn |-> "edit_slide_content", slide |-> slide]
         /\ retval' = select_shape("content", slide)
    /\ UNCHANGED << execVars, feVars, file >>

\* one call of edit_slide_title on a slide
EditSlideTitleCall ==
    /\ args = NoArgs
    /\ \E slide \in Slides :
         /\ args' = [fn |-> "edit_slide_title", slide |-> slide]
         /\ retval' = select_shape("title", slide)
    /\ UNCHANGED << execVars, feVars, file >>

\* the shape format_slide_content (what = "content") and format_slide_title
\* (what = "title") format, helper.py:2173-2181 and 2391-2399: the first of
\* the sorted candidates, or HelperError when there is none (chosen 0)
format_select_shape(what, slide) ==
    LET all == SortInfos(Candidates("format_" \o what, slide, Len(slide))) IN
    IF all # << >>
    THEN [all |-> all, chosen |-> all[1].index, created |-> FALSE,
          x |-> 0, y |-> 0]
    ELSE [all |-> all, chosen |-> 0, created |-> FALSE, x |-> 0, y |-> 0]

\* one call of format_slide_content on a slide
FormatSlideContentCall ==
    /\ args = NoArgs
    /\ \E slide \in Slides :
         /\ args' = [fn |-> "format_slide_content", slide |-> slide]
         /\ retval' = format_select_shape("content", slide)
    /\ UNCHANGED << execVars, feVars, file >>

\* one call of format_slide_title on a slide
FormatSlideTitleCall ==
    /\ args = NoArgs
    /\ \E slide \in Slides :
         /\ args' = [fn |-> "format_slide_title", slide |-> slide]
         /\ retval' = format_select_shape("title", slide)
    /\ UNCHANGED << execVars, feVars, file >>

NextShape ==
    \/ EditSlideContentCall
    \/ EditSlideTitleCall
    \/ FormatSlideContentCall
    \/ FormatSlideTitleCall

SpecShape == Init /\ [][NextShape]_vars

(***************************************************************************)
(* The slide handlers applied to the file: add_slide, helper.py:1039-1217, *)
(* delete_slide, helper.py:1625-1661, and the handlers that work on one    *)
(* slide, which all take it from get_validated_slide, helper.py:861-876.   *)
(* The body of a presentation is the sequence of its slides.               *)
(***************************************************************************)
\* bound of the presentations followed
MaxSlides == 3

\* valid_presentation, helper.py:853-859
HasDrawPages(f) == f.kind = "impress"

\* slide_index as sent: None when the key is missing
NoIndex == [given |-> FALSE, value |-> 0]
Index(i) == [given |-> TRUE, value |-> i]
SlideIndexes == { NoIndex } \cup { Index(i) : i \in (0 - 2)..(MaxSlides + 1) }

\* str(i) for the indexes used
Digits(i) ==
    IF i < 0 THEN "-" \o <<"0", "1", "2", "3", "4", "5", "6">>[1 - i]
    ELSE <<"0", "1", "2", "3", "4", "5", "6">>[i + 1]

\* a check that lets the last slide go
get_validated_slide_any(n, i, delete) ==
    IF i < 0 \/ i >= n
    THEN HelperError("Slide index " \o Digits(i) \o " is out of range")
    ELSE NoExc

\* get_validated_slide, helper.py:861-876: the exception it raises, NoExc
\* when it returns the slide
get_validated_slide(n, i, delete) ==
    IF i < 0 \/ i >= n
    THEN HelperError("Slide index " \o Digits(i) \o " is out of range")
    ELSE IF delete /\ n = 1
    THEN HelperError("Cannot delete the only slide in the presentation")
    ELSE NoExc

Max2(a, b) == IF a >= b THEN a ELSE b
Min2(a, b) == IF a <= b THEN a ELSE b

\* an insert index taken as given
insert_index_unclamped(idx, n) == IF ~idx.given THEN n ELSE idx.value

\* helper.py:1058
insert_index(idx, n) ==
    IF ~idx.given THEN n ELSE Max2(0, Min2(idx.value, n))

\* add_slide: the new slide is inserted and the document stored; what goes
\* wrong with layout, title and content is logged and dropped
add_slide(f, idx) ==
    IF ~HasDrawPages(f)
    THEN Raises(f, HelperError("Document does not support slides/pages"))
    ELSE LET n == Len(f.body)
             at == insert_index(idx, n)
         IN IF at < 0 \/ at > n
            THEN Raises(f, HostException("IndexOutOfBoundsException"))
            ELSE Outcome([f EXCEPT !.body = Append(@, Slide)], TRUE, NoExc,
                         Str("Slide added at index " \o Digits(at)
                               \o " with TitleContent layout in F"), << >>)

\* delete_slide; removed tells whether draw_pages.remove took the slide out
delete_slide(f, idx, removed) ==
    IF ~HasDrawPages(f)
    THEN Raises(f, HelperError("Document does not support slides/pages"))
    ELSE LET n == Len(f.body)
             e == IF idx.given THEN get_validated_slide(n, idx.value, TRUE)
                  ELSE HostException("'<' not supported between instances of 'NoneType' and 'int'")
         IN IF e # NoExc THEN Raises(f, e)
            ELSE IF ~removed
            THEN Raises(f, HelperError("Slide deletion verification failed"))
            ELSE Outcome([f EXCEPT !.body = Tail(@)], TRUE, NoExc,
                         Str("Successfully deleted slide at index "
                               \o Digits(idx.value) \o " from F"), << >>)

\* the handlers that work on one slide and leave the number of slides
SlideEditors ==
    { "edit_slide_content", "edit_slide_title", "format_slide_content",
      "format_slide_title", "insert_slide_image" }

\* one of them up to its store call
edit_slide(a, f, idx) ==
    IF ~HasDrawPages(f)
    THEN Raises(f, HelperError("Document does not support slides/pages"))
    ELSE LET e == IF idx.given
                  THEN get_validated_slide(Len(f.body), idx.value, FALSE)
                  ELSE HostException("'<' not supported between instances of 'NoneType' and 'int'")
         IN IF e # NoExc THEN Raises(f, e)
            ELSE Outcome(f, TRUE, NoExc, Str("Successfully edited slide"), << >>)

\* one slide command handled from recv to send
SlideCommand(a, o, p) ==
    /\ Len(o.doc.body) <= MaxSlides
    /\ args' = [fn |-> a, p |-> p, before |-> file]
    /\ retval' = [status |-> BuildResponse(safe_execute(a, o.exc),
                                           o.result).status,
                  message |-> BuildResponse(safe_execute(a, o.exc),
                                            o.result).message,
                  stored |-> o.stored]
    /\ file' = IF o.stored THEN o.doc ELSE file
    /\ UNCHANGED << execVars, feVars >>

\* create_document for a presentation or a text document
CreatePresentation ==
    \E t \in { "impress", "text" } :
      SlideCommand("create_document", create_text_document(file, t),
                   [doc_type |-> t])

OpenedOr(f, o) ==
    IF f = Absent THEN Raises(f, HelperError("Document not found: F")) ELSE o

AddSlide ==
    \E idx \in SlideIndexes :
      SlideCommand("add_slide", OpenedOr(file, add_slide(file, idx)),
                   [index |-> idx])

DeleteSlide ==
    \E idx \in SlideIndexes, removed \in BOOLEAN :
      SlideCommand("delete_slide",
                   OpenedOr(file, delete_slide(file, idx, removed)),
                   [index |-> idx, removed |-> removed])

EditSlide ==
    \E a \in SlideEditors, idx \in SlideIndexes :
      SlideCommand(a, OpenedOr(file, edit_slide(a, file, idx)),
                   [index |-> idx])

NextSlides == CreatePresentation \/ AddSlide \/ DeleteSlide \/ EditSlide

SpecSlides == Init /\ [][NextSlides]_vars

(***************************************************************************)
(* search_replace_text, helper.py:500-525, and delete_text, helper.py:     *)
(* 527-529, applied to a text document.  The test for the search text is   *)
(* Python's "in" on text.getString(); the replacement is the host's        *)
(* replaceAll with SearchCaseSensitive = False and SearchWords = False,    *)
(* which works through each paragraph from left to right.                  *)
(***************************************************************************)
\* bounds of the texts followed
MaxParas == 2
MaxText == 2

\* the letters of the texts; LowerChar("A") = "a"
Letters == { "a", "A", "d" }

\* the texts of up to n letters
Texts(n) == UNION { [1..k -> Letters] : k \in 0..n }

\* search_text in document_text
Contains(t, x) ==
    \E i \in 1..(Len(t) - Len(x) + 1) : SubSeq(t, i, i + Len(x) - 1) = x

\* a match of the search string at position i, compared letter by letter
\* as written
MatchesExactly(t, i, x) ==
    i + Len(x) - 1 <= Len(t) /\ SubSeq(t, i, i + Len(x) - 1) = x

\* a match of the search string at position i with SearchCaseSensitive =
\* False, helper.py:515
Matches(t, i, x) ==
    /\ i + Len(x) - 1 <= Len(t)
    /\ LowerChars(SubSeq(t, i, i + Len(x) - 1)) = LowerChars(x)

\* the text t from position i on with every match of x replaced by r, and
\* the number of matches; exact chooses the comparison
RECURSIVE ReplaceFrom(_, _, _, _, _)
ReplaceFrom(t, i, x, r, exact) ==
    IF i > Len(t) THEN [text |-> << >>, count |-> 0]
    ELSE IF (IF exact THEN MatchesExactly(t, i, x) ELSE Matches(t, i, x))
    THEN LET rest == ReplaceFrom(t, i + Len(x), x, r, exact)
         IN [text |-> r \o rest.text, count |-> rest.count + 1]
    ELSE LET rest == ReplaceFrom(t, i + 1, x, r, exact)
         IN [text |-> << t[i] >> \o rest.text, count |-> rest.count]

\* doc.replaceAll(replace_desc) on the elements of the body
RECURSIVE replaceAll(_, _, _, _)
replaceAll(body, x, r, exact) ==
    IF body = << >> THEN [body |-> << >>, count |-> 0]
    ELSE LET h == ReplaceFrom(Head(body).text, 1, x, r, exact)
             rest == replaceAll(Tail(body), x, r, exact)
         IN [body |-> << [Head(body) EXCEPT !.text = h.text] >> \o rest.body,
             count |-> h.count + rest.count]

\* search_replace_text, helper.py:500-525
search_replace_text(f, search_text, replace_text) ==
    IF ~HasText(f)
    THEN Raises(f, HelperError("Document does not support search and replace"))
    ELSE IF ~Contains(getString(f.body), search_text)
    THEN Raises(f, HelperError("Text '" \o ToStr(search_text)
                                 \o "' not found in document"))
    ELSE LET done == replaceAll(f.body, search_text, replace_text, FALSE)
         IN Outcome([f EXCEPT !.body = done.body], TRUE, NoExc,
                    Str("Replaced " \o Digits(done.count) \o " occurrences of '"
                          \o ToStr(search_text) \o "' with '"
                          \o ToStr(replace_text) \o "' in F"),
                    << >>)

\* delete_text, helper.py:527-529
delete_text(f, text_to_delete) ==
    search_replace_text(f, text_to_delete, << >>)

\* the documents the two handlers are given: text documents of up to
\* MaxParas paragraphs, and a presentation
ReplaceFiles ==
    { [kind |-> "text", body |-> [k \in 1..n |-> Para(ts[k])]] :
        n \in 1..MaxParas, ts \in [1..MaxParas -> Texts(MaxText)] }
    \cup { NewDocument("impress") }

\* one command answered by the handler's outcome o for the file f
ReplaceCommand(a, f, p, o) ==
    LET e == safe_execute(a, o.exc) IN
    /\ args' = [fn |-> a, p |-> p, before |-> f]
    /\ retval' = [status |-> BuildResponse(e, o.result).status,
                  message |-> BuildResponse(e, o.result).message,
                  stored |-> o.stored]
    /\ file' = IF o.stored THEN o.doc ELSE f
    /\ UNCHANGED << execVars, feVars >>

\* search_replace_text on a document
SearchReplaceText ==
    /\ args = NoArgs
    /\ \E f \in ReplaceFiles, x \in Texts(MaxText) \ { << >> },
          r \in { << >>, << "d" >> } :
         ReplaceCommand("search_replace_text", f,
                        [search_text |-> x, replace_text |-> r],
                        search_replace_text(f, x, r))

\* delete_text on a document
DeleteText ==
    /\ args = NoArgs
    /\ \E f \in ReplaceFiles, x \in Texts(MaxText) \ { << >> } :
         ReplaceCommand("delete_text", f,
                        [search_text |-> x, replace_text |-> << >>],
                        delete_text(f, x))

NextReplace == SearchReplaceText \/ DeleteText

SpecReplace == Init /\ [][NextReplace]_vars

(***************************************************************************)
(* The size and the place insert_slide_image gives to the image,           *)
(* helper.py:2534-2647, as a function of the slide's size, the maxima the  *)
(* caller gave, and the image's size in pixels and its DPI as              *)
(* get_image_size, libre.py:43-74, read them.  Lengths are in 1/100 mm.    *)
(* The code computes in floating point; the DPI values followed make       *)
(* 2540 / dpi exact or keep the products away from whole numbers, and      *)
(* int(original * scale_factor) is followed with both values the rounding  *)
(* of the quotient can give when the exact product is a whole number.      *)
(***************************************************************************)
\* helper.py:2614  min_size = 1000
MinSize == 1000

\* max_width=None, max_height=None
NoMax == 0 - 1
\* img_width_px=None: get_image_size found no size
NoPx == 0

\* the sizes of the slides: the default of helper.py:2534-2535 and a 16:9 page
SlideSizes == { << 25400, 19050 >>, << 28000, 15750 >> }
\* the maxima, the sizes in pixels and the DPI values given
Maxima == { NoMax, 500, 5000, 30000 }
Pixels == { NoPx, 1, 30, 2000 }
Dpis == { 96, 254, 5080 }

\* helper.py:2561-2571: the maximum in effect along one side of the slide
effective_max(given, side) ==
    IF given = NoMax THEN (side * 3) \div 4
    ELSE Min2(given, (side * 9) \div 10)

\* helper.py:2576-2590: int(px * (25.4 * 100) / dpi), or half the maximum
\* when a size or the DPI is missing
original_size(px, other_px, dpi, max) ==
    IF px # NoPx /\ other_px # NoPx /\ dpi # 0
    THEN (px * 2540) \div dpi
    ELSE max \div 2

\* helper.py:2606-2608: min(width_scale, height_scale, 1.0) as a fraction
scale_factor(max_width, max_height, original_width, original_height) ==
    IF max_width >= original_width /\ max_height >= original_height
    THEN << 1, 1 >>
    ELSE IF max_width * original_height <= max_height * original_width
    THEN << max_width, original_width >>
    ELSE << max_height, original_height >>

\* int(original * scale_factor)
Scaled(original, scale) ==
    LET q == (original * scale[1]) \div scale[2] IN
    IF scale = << 1, 1 >> \/ (original * scale[1]) % scale[2] # 0 \/ q = 0
    THEN { q }
    ELSE { q - 1, q }

\* helper.py:2613-2618
clamp_min(new) == IF new < MinSize THEN MinSize ELSE new

\* helper.py:2630-2635: the top-left corner that centres the image
centered(side, new) == side \div 2 - new \div 2

\* insert_slide_image on a slide of the given size; w and h are the values
\* int() gave for the scaled width and height
insert_slide_image(slide, max_w, max_h, img_width_px, img_height_px, dpi, w, h) ==
    LET max_width == effective_max(max_w, slide[1])
        max_height == effective_max(max_h, slide[2])
        original_width ==
            original_size(img_width_px, img_height_px, dpi, max_width)
        original_height ==
            original_size(img_height_px, img_width_px, dpi, max_height)
        new_width == clamp_min(w)
        new_height == clamp_min(h)
        sizes == [max_width |-> max_width, max_height |-> max_height,
                  original_width |-> original_width,
                  original_height |-> original_height]
    IN
    IF original_width = 0 \/ original_height = 0
    THEN [exc |-> HelperError("Failed to create and configure image shape: "
                               \o "division by zero"),
          stored |-> FALSE, sizes |-> sizes,
          width |-> 0, height |-> 0, x |-> 0, y |-> 0]
    ELSE [exc |-> NoExc, stored |-> TRUE, sizes |-> sizes,
          width |-> new_width, height |-> new_height,
          x |-> centered(slide[1], new_width),
          y |-> centered(slide[2], new_height)]

\* one call of insert_slide_image
InsertSlideImageCall ==
    /\ args = NoArgs
    /\ \E slide \in SlideSizes, max_w \in Maxima, max_h \in Maxima,
          img_width_px \in Pixels, img_height_px \in Pixels, dpi \in Dpis :
         LET mw == effective_max(max_w, slide[1])
             mh == effective_max(max_h, slide[2])
             ow == original_size(img_width_px, img_height_px, dpi, mw)
             oh == original_size(img_height_px, img_width_px, dpi, mh)
             scale == IF ow = 0 \/ oh = 0 THEN << 1, 1 >>
                      ELSE scale_factor(mw, mh, ow, oh)
         IN \E w \in Scaled(ow, scale), h \in Scaled(oh, scale) :
              /\ args' = [fn |-> "insert_slide_image", slide |-> slide,
                          max_width |-> max_w, max_height |-> max_h,
                          img_width_px |-> img_width_px,
                          img_height_px |-> img_height_px, dpi |-> dpi]
              /\ retval' = insert_slide_image(slide, max_w, max_h,
                                              img_width_px, img_height_px, dpi,
                                              w, h)
    /\ UNCHANGED << execVars, feVars, file >>

NextImage == InsertSlideImageCall

SpecImage == Init /\ [][NextImage]_vars

(***************************************************************************)
(* Properties of the executor.                                             *)
(***************************************************************************)
\* positions at which the handler of the current command has ended
HandlerEnded == pc \in { "return", "respond", "send", "send_last", "close" }

\* positions inside a handler
InHandler ==
    pc \in { "handler", "body", "store", "exit", "post", "cd_meta", "cd_store",
             "cd_close", "cd_verify", "tp_break", "tp_open", "tp_new",
             "tp_copy", "tp_store", "tp_finally" }

\* C1: every response sent on a connection has status "success" or "error"
\* and a message that is a string, whatever the action and the handler's
\* outcome.
C1_ResponseShape ==
    sent # NoResp =>
        /\ sent.status \in { "success", "error" }
        /\ sent.message.isStr

\* C2: when the operation failed, or a host automation call raised during
\* the command, the response has status "error", never "success".
C2_FailureIsError ==
    (sent # NoResp /\ (hostRaised \/ exc # NoExc)) => sent.status = "error"

\* C3: connections are handled strictly one at a time: at most one socket is
\* accepted and not yet closed, it is client_socket, every connection made
\* before it is already closed, and a handler or an open document exists
\* only for it.
C3_OneAtATime ==
    /\ Cardinality(Accepted) <= 1
    /\ pc = "accept" => (Accepted = {} /\ client_socket = 0)
    /\ pc # "accept" => Accepted = { client_socket }
    /\ \A i \in Accepted : \A j \in ConnIds : j < i => sockState[j] = "closed"
    /\ \A i \in Queued : \A j \in ConnIds : j < i => sockState[j] # "unused"
    /\ (InHandler \/ ran \/ mdoc = "open" \/ tdoc = "open" \/ sent # NoResp)
          => Accepted = { client_socket }

\* a handler holds an open document while another connection waits in the
\* listen queue
C3_Witness == pc = "store" /\ mdoc = "open" /\ Queued # {}

\* C4: a handle obtained through managed_document is closed on every exit
\* path: once the handler has ended no such handle is open; leaving the with
\* block closes the handle and leaves the exception in flight and the result
\* as the body left them, also when close itself fails.
C4_ManagedClosed ==
    /\ [](HandlerEnded => (mdoc # "open" /\ tdoc # "open"))
    /\ [][(pc = "exit" /\ pc' # "exit")
             => (mdoc' # "open" /\ exc' = exc /\ result' = result)]_vars

\* delete_paragraph raised its validation error inside the block, close
\* failed, and the validation error is still the one that leaves the handler
C4_Witness ==
    /\ pc = "return"
    /\ command.action = "delete_paragraph"
    /\ mdoc = "vetoed"
    /\ exc = HelperError("index out of range or not found")

\* C5: after create_document or apply_presentation_template has ended, with
\* success or with any error, no document created or loaded during the
\* command is still open in the host.
C5_NoDocumentLeftOpen ==
    (HandlerEnded /\ command.action \in { "create_document",
                                          "apply_presentation_template" })
        => (mdoc # "open" /\ tdoc # "open" /\ ndoc # "open")

\* C6: a well-formed request whose action is not in the dispatch table is
\* answered with status "success" and message "Unknown action: <name>"; no
\* handler runs and no document is opened.
C6_UnknownAction ==
    (command.form = "object" /\ command.action \notin COMMAND_HANDLERS) =>
        /\ ~ran
        /\ mdoc = "none" /\ tdoc = "none" /\ ndoc = "none"
        /\ pc = "send" =>
             response = Response("success",
                                 Str("Unknown action: " \o command.action))
        /\ (sent # NoResp /\ ~sendRaised) =>
             sent = Response("success",
                             Str("Unknown action: " \o command.action))

C6_Witness ==
    /\ pc = "close"
    /\ sent = Response("success", Str("Unknown action: open_presentation"))

\* C7: every action name the front-end sends has an entry in the dispatch
\* table: no command built by the front-end is answered "Unknown action".
C7_FrontEndActionsKnown ==
    (command.origin = "tool" /\ sent # NoResp) =>
        sent.message # Str("Unknown action: " \o command.action)

\* C8: after a failed read-back verification nothing is stored and the
\* response is not a success.
C8_VerifyFailureAborts ==
    verifyFailed =>
        /\ ~stored
        /\ sent # NoResp => sent.status # "success"

\* C9: a request longer than the 16384-byte receive buffer is answered with
\* status "error" and is never dispatched to a handler.
C9_OversizeRejected ==
    command.truncated =>
        /\ ~ran
        /\ sent # NoResp => sent.status = "error"

(***************************************************************************)
(* Properties of the front-end.                                            *)
(***************************************************************************)
\* C10: call_libreoffice_helper never raises: after connection refused, a
\* timeout, an empty response, a response that is no valid JSON (also one
\* cut at the receive buffer) or any other local exception, the result is a
\* dict with status "error" and a string message, and the tool returns a
\* string made of that message.
C10_CallNeverRaises ==
    /\ ~fraised
    /\ (fpc \in { "tool", "done" } /\ fcause # "none") =>
          /\ fresult.status = "error"
          /\ fresult.message.isStr
    /\ (fpc = "done" /\ fcause # "none" /\ fcall.action \notin MainSites) =>
          /\ fret.isStr
          /\ fret = Str(ErrorPrefix(fcall.action) \o fresult.message.text)

\* read_text_document got a reply longer than the receive buffer and the tool
\* returned the error string
C10_Witness ==
    /\ fpc = "done"
    /\ fcall.action = "read_text_document"
    /\ fcause = "truncated"
    /\ fret = Str("Error: Error communicating with helper: Unterminated string")

\* C13: an error raised by a handler is answered with status "error" and
\* the message "Error: " followed by the text of the error that left
\* safe_execute: the text T of a HelperError as raised, and
\* "Error in <action>: " followed by str(e) for any other exception.
C13_ErrorMessage ==
    /\ []((pc = "send" /\ exc # NoExc)
            => response = Response("error", Str("Error: " \o exc.msg)))
    /\ []((sent # NoResp /\ ~sendRaised /\ exc # NoExc)
            => sent = Response("error", Str("Error: " \o exc.msg)))
    /\ [][(pc = "return" /\ pc' = "respond") =>
            /\ exc.type = "HelperError" => exc' = exc
            /\ exc.type = "Exception" =>
                  exc' = HelperError("Error in " \o command.action \o ": "
                                       \o exc.msg)
            /\ exc = NoExc => exc' = NoExc]_vars

\* a host exception in add_text reached its caller with both prefixes
C13_Witness ==
    /\ pc = "close"
    /\ command.action = "add_text"
    /\ sent = Response("error", Str("Error: Error in add_text: uno error"))

\* C13 as stated: the response message is the text of the raised error
C13_MessagePreserved ==
    (sent # NoResp /\ ~sendRaised /\ exc.type = "HelperError")
        => sent = Response("error", Str(exc.msg))

\* the reply to ping
PingReply == Response("success", Str("LibreOffice helper is running"))

Dispatchable(b) ==
    /\ b.form = "object"
    /\ ParsesAsJson(b)
    /\ HasHandler(b.action)

\* C11: there is no cancellation.  A handler that runs for a caller who has
\* stopped waiting still runs to its end, and a command written on a
\* connection whose caller stopped waiting while it was queued is still
\* accepted and dispatched to its handler.
C11_NoCancellation ==
    /\ \A i \in ConnIds :
         (client_socket = i /\ InHandler /\ gaveUp[i] # "no")
             ~> (client_socket = i /\ HandlerEnded)
    /\ \A i \in ConnIds :
         (sockState[i] = "queued" /\ gaveUp[i] = "queued"
              /\ Dispatchable(sockBody[i]))
             ~> (client_socket = i /\ ran)

\* the copy asked by a front-end caller who gave up while still queued was
\* stored and answered with success
C11_Witness ==
    /\ pc = "close"
    /\ command.origin = "tool"
    /\ command.action = "copy_document"
    /\ gaveUp[client_socket] = "queued"
    /\ stored
    /\ sent.status = "success"

(***************************************************************************)
(* Properties of open_document.                                            *)
(***************************************************************************)
\* the exception a failed load attempt leaves in last_exception
LoadError(o) ==
    IF o = "none" THEN HelperError("Failed to load document: F")
    ELSE HostException("load failed")

\* at most Retries load attempts, DelayMs of sleep after each failed one,
\* return at the first successful load, the last attempt's error after the
\* last failure, and no attempt at all when the path or the host connection
\* fails
OpenLoopContract ==
    LET r == retval.open
        att == args.att
        failed == { k \in 1..Retries : k <= r.attempts /\ att[k] # "doc" }
    IN
    /\ r.attempts <= Retries
    /\ r.slept = DelayMs * Cardinality(failed)
    /\ args.pre # "ok" => (~r.doc /\ r.attempts = 0 /\ r.slept = 0)
    /\ args.pre = "ok" =>
          /\ r.doc <=> (\E k \in 1..Retries : att[k] = "doc")
          /\ r.doc => /\ att[r.attempts] = "doc"
                      /\ \A k \in 1..(r.attempts - 1) : att[k] # "doc"
          /\ ~r.doc => /\ r.attempts = Retries
                       /\ r.exc = LoadError(att[Retries])

ParagraphCount(f) == Len(f.body)

\* the last command was delete_paragraph on a text document with an index
\* outside its paragraphs
DeleteOutOfRange ==
    /\ args.fn = "delete_paragraph"
    /\ HasText(args.before)
    /\ (args.p.index < 0 \/ args.p.index >= ParagraphCount(args.before))

\* C15: delete_paragraph with an index below 0 or at least the number of
\* paragraphs answers with status "error", removes nothing and does not
\* store, so the document and its paragraph count are what they were.
C15_DeleteOutOfRange ==
    DeleteOutOfRange =>
        /\ retval.status = "error"
        /\ ~retval.stored
        /\ file = args.before
        /\ ParagraphCount(file) = ParagraphCount(args.before)

\* an index one past the last paragraph of a document of two or more was
\* refused by the handler's own check
C15_Witness ==
    /\ DeleteOutOfRange
    /\ args.host = "ok"
    /\ args.p.index = ParagraphCount(args.before)
    /\ ParagraphCount(args.before) >= 2
    /\ retval.status = "error"
    /\ file = args.before

\* the last command was a read of the path, with the host answering, right
\* after a create_document for a text document succeeded there
ReadAfterCreate(a) ==
    /\ args.fn = a
    /\ args.created = "text"
    /\ args.host = "ok"

\* C16: after create_document succeeds for a text document, an immediate
\* read through read_text_document or through open_text_document answers
\* with status "success" and the empty text as the message.
C16_ReadAfterCreate ==
    \A a \in { "read_text_document", "open_text_document" } :
        ReadAfterCreate(a) =>
            /\ retval.status = "success"
            /\ retval.message = Str("")

\* the part of C16 the handlers keep: read_text_document right after the
\* create answers with the empty text
C16_ReadTextDocument ==
    ReadAfterCreate("read_text_document") =>
        /\ retval.status = "success"
        /\ retval.message = Str("")
        /\ retval.content = << >>

\* read_text_document answered right after a create
C16_Witness ==
    /\ ReadAfterCreate("read_text_document")
    /\ retval.message = Str("")

\* n copies of x, one after the other
RECURSIVE Copies(_, _)
Copies(x, n) == IF n = 0 THEN << >> ELSE x \o Copies(x, n - 1)

\* the last command was an add_text that succeeded, with a position that is
\* neither "start" nor "cursor"
AddedAtEnd ==
    /\ args.fn = "add_text"
    /\ args.p.position \notin { "start", "cursor" }
    /\ retval.status = "success"

\* C17: after add_text with position "end", or with any position other than
\* "start" and "cursor", a read of the document yields the text it had
\* before followed by X, and after n such calls in a row the text ends in
\* n copies of X.
C17_AddTextAppends ==
    AddedAtEnd =>
        LET now == extract_text(file).content
            was == extract_text(args.before).content
        IN /\ now = was \o args.p.text
           /\ EndsIn(now, Copies(args.p.text, args.calls))
           /\ file = add_text(args.before, args.p.text, "end").doc

\* the second of two equal calls with a position that is not a known one,
\* on a document that had text before them
C17_Witness ==
    /\ AddedAtEnd
    /\ args.p.position = "middle"
    /\ args.p.text = << "X" >>
    /\ args.calls = 2
    /\ extract_text(file).content = << "a", "X", "X" >>

\* the names list_documents has to list for the directory it was given
Supported ==
    { e.name : e \in { args.listing[i] : i \in 1..Len(args.listing) } \
                       { x \in { args.listing[i] : i \in 1..Len(args.listing) } :
                           ~x.isfile
                           \/ LowerChars(splitext(x.name)) \notin extensions } }

\* C18: list_documents on a directory lists exactly the regular files
\* whose lower-cased extension is a supported one, each once, in ascending
\* order of name; the count it reports is the number of files listed; a
\* path that is missing or not a directory is answered with status "error".
C18_ListDocuments ==
    args.fn = "list_documents" =>
        IF args.kind = "dir"
        THEN /\ retval.status = "success"
             /\ { retval.docs[i] : i \in 1..Len(retval.docs) } = Supported
             /\ Len(retval.docs) = Cardinality(Supported)
             /\ \A i, j \in 1..Len(retval.docs) :
                    i < j => NameLess(retval.docs[i], retval.docs[j])
             /\ retval.docs # << >> => retval.found = Len(retval.docs)
        ELSE /\ retval.status = "error"
             /\ retval.docs = << >>

\* a directory returned out of order, holding a name with an upper-case
\* extension and one with an unsupported extension
C18_Witness ==
    /\ args.fn = "list_documents"
    /\ args.kind = "dir"
    /\ args.listing = << Entry(<< "c", ".", "e", "x", "e" >>, TRUE),
                         Entry(<< "a", ".", "o", "d", "t" >>, TRUE),
                         Entry(<< "A", ".", "O", "D", "T" >>, TRUE) >>
    /\ retval.docs = << << "A", ".", "O", "D", "T" >>,
                        << "a", ".", "o", "d", "t" >> >>
    /\ retval.found = 2

\* the shading and the weight of the first row of the first table of f
FirstRow(f) ==
    LET tb == f.body[First(Tables(f.body))] IN
    [back |-> tb.back, weight |-> tb.weight]

\* the last command was a format_table that succeeded with header_row h
Formatted(h) ==
    /\ args.fn = "format_table"
    /\ args.p.header_row = h
    /\ retval.status = "success"

\* C19: format_table with header_row true gives the first row the header
\* shading and bold cells; a following format_table with header_row false
\* gives it white shading and normal weight, which is the formatting it had
\* before the first call exactly when that was white and normal.
C19_HeaderRow ==
    /\ Formatted("true") =>
          FirstRow(file) = [back |-> HeaderGray, weight |-> Bold]
    /\ Formatted("false") =>
          FirstRow(file) = [back |-> White, weight |-> Normal]
    /\ (Formatted("false") /\ args.reverts) =>
          (FirstRow(file) = FirstRow(args.prior)
             <=> FirstRow(args.prior) = [back |-> White, weight |-> Normal])

\* header_row false after header_row true on a table that add_table made
\* with a bold first row: the row was shaded and is now white and normal
C19_Witness ==
    /\ Formatted("false")
    /\ args.reverts
    /\ FirstRow(args.prior).weight = Bold
    /\ FirstRow(args.before) = [back |-> HeaderGray, weight |-> Bold]
    /\ FirstRow(file) = [back |-> White, weight |-> Normal]

\* C19 as stated: header_row false after header_row true leaves the first
\* row formatted as it was before the first of the two calls
C19_RevertsToPrior ==
    (Formatted("false") /\ args.reverts) =>
        FirstRow(file) = FirstRow(args.prior)

\* the last call chose among the shapes of a slide for what
Selected(what) ==
    args.fn = IF what = "content" THEN "edit_slide_content"
              ELSE "edit_slide_title"

\* C20: the shape edited is the candidate with the smallest (priority,
\* index) among the scored shapes with text, each shape being a candidate
\* at most once; a TitleTextShape is never the content shape and an
\* OutlinerShape never the title shape; a new shape is made, at the fixed
\* position, exactly when there is no candidate.
C20_ShapeSelection ==
    \A what \in { "content", "title" } :
      Selected(what) =>
        LET all == retval.all
            slide == args.slide
        IN /\ \A j, k \in 1..Len(all) : j # k => all[j].index # all[k].index
           /\ \A k \in 1..Len(all) :
                 /\ all[k].index \in 1..Len(slide)
                 /\ slide[all[k].index].getText
                 /\ all[k].priority \in 1..6
           /\ retval.created <=> all = << >>
           /\ ~retval.created =>
                 /\ \E k \in 1..Len(all) :
                       /\ all[k].index = retval.chosen
                       /\ \A j \in 1..Len(all) : ~KeyLess(all[j], all[k])
                 /\ slide[retval.chosen].type #
                       (IF what = "content" THEN "TitleTextShape"
                        ELSE "OutlinerShape")
           /\ retval.created =>
                 /\ retval.x = NewShapeX
                 /\ retval.y = IF what = "content" THEN NewContentY
                                ELSE NewTitleY

\* a content shape chosen by priority against the order of the slide: the
\* first shape was scored by its position, met the fallback test and
\* stayed a candidate once; the second shape won
C20_Witness ==
    /\ Selected("content")
    /\ Len(args.slide) = 2
    /\ args.slide[1].type = "CustomShape"
    /\ args.slide[1].y > TitleAreaY
    /\ retval.all = << Info(2, 3), Info(1, 5) >>
    /\ retval.chosen = 2

\* a tool, not main's ping nor the document resource, has returned after
\* call_libreoffice_helper gave it a response
ToolAnswered ==
    /\ fpc = "done"
    /\ fcall.action \notin MainSites \cup { "open_text_document" }
    /\ fresult # NoResp

\* C21: a tool that reached the executor returns a string: the message of
\* the response when its status is "success", otherwise "Error: " followed
\* by the message; it never returns a value that is not a string.
C21_ToolReturnsString ==
    ToolAnswered =>
        /\ fret.isStr
        /\ fret = IF fresult.status = "success" THEN fresult.message
                  ELSE Str("Error: " \o fresult.message.text)

\* C22: whatever the outcome of a connection (nothing received, invalid
\* JSON, a handler error, a receive timeout, a failed send), the executor
\* closes that socket and is back at accept(): an accepted socket is always
\* closed in the end, no socket is still accepted when the loop accepts,
\* and the step that leaves the finally clause closes the socket.
C22_ClosedThenAccept ==
    /\ \A i \in ConnIds :
         (sockState[i] = "accepted") ~> (sockState[i] = "closed" /\ pc = "accept")
    /\ [](pc = "accept" => \A i \in ConnIds : sockState[i] # "accepted")
    /\ [][(pc # "accept" /\ pc' = "accept")
             => (pc = "close" /\ sockState'[client_socket] = "closed")]_vars

\* the send of the response failed on the second connection, which is about
\* to be closed; the first one was closed and the loop accepted again
C22_Witness ==
    /\ pc = "close"
    /\ sendRaised
    /\ client_socket = 2
    /\ sockState[1] = "closed"

\* the handler of the current command has ended with an exception
EndedWithError == HandlerEnded /\ exc # NoExc

SlideCount(f) == Len(f.body)

\* C24: delete_slide on a presentation with one slide, or with an index
\* outside [0, slide count), answers with an error and removes nothing; a
\* delete_slide that succeeds lowers the slide count by exactly one; a
\* presentation made and changed by these commands has at least one slide.
C24_NeverZeroSlides ==
    /\ HasDrawPages(file) => SlideCount(file) >= 1
    /\ (args.fn = "delete_slide" /\ HasDrawPages(args.before)) =>
         LET n == SlideCount(args.before)
             i == args.p.index
         IN /\ (n = 1 \/ ~i.given \/ i.value < 0 \/ i.value >= n) =>
                  (retval.status = "error" /\ file = args.before)
            /\ retval.status = "success" =>
                  SlideCount(file) = n - 1
            /\ retval.status = "error" => file = args.before

\* the only slide of a presentation was asked to be deleted, with its own
\* index, and is still there
C24_Witness ==
    /\ args.fn = "delete_slide"
    /\ HasDrawPages(args.before)
    /\ SlideCount(args.before) = 1
    /\ args.p.index = Index(0)
    /\ args.p.removed
    /\ retval.status = "error"
    /\ SlideCount(file) = 1

\* C29: add_slide never rejects a slide_index: without one the slide is
\* appended, and an integer one is clamped into [0, slide count]; the slide
\* count grows by exactly one and the message reports the clamped index.
\* Every other slide handler answers an index outside [0, slide count)
\* with an error.
C29_AddSlideClamps ==
    /\ (args.fn = "add_slide" /\ HasDrawPages(args.before)) =>
         LET n == SlideCount(args.before)
             i == args.p.index
             at == IF ~i.given THEN n
                   ELSE IF i.value < 0 THEN 0
                   ELSE IF i.value > n THEN n ELSE i.value
         IN /\ retval.status = "success"
            /\ SlideCount(file) = n + 1
            /\ retval.message = Str("Slide added at index " \o Digits(at)
                                      \o " with TitleContent layout in F")
    /\ (args.fn \in SlideEditors \cup { "delete_slide" }
          /\ HasDrawPages(args.before)) =>
         LET n == SlideCount(args.before)
             i == args.p.index
         IN (i.given /\ (i.value < 0 \/ i.value >= n)) =>
               (retval.status = "error" /\ file = args.before)

\* a slide added with an index beyond the end of a presentation of two
\* slides: the message reports index 2
C29_Witness ==
    /\ args.fn = "add_slide"
    /\ SlideCount(args.before) = 2
    /\ args.p.index = Index(4)
    /\ retval.message =
         Str("Slide added at index 2 with TitleContent layout in F")
    /\ SlideCount(file) = 3


\* C25: on any slide on which format_slide_content selects a shape, it is
\* the shape edit_slide_content selects as the main content shape of that
\* slide, and format_slide_title selects the shape edit_slide_title selects.
C25_FormatSelectsEditedShape ==
    \A what \in { "content", "title" } :
      (/\ args # NoArgs
       /\ args.fn = "format_slide_" \o what
       /\ retval.chosen # 0)
      => retval.chosen = select_shape(what, args.slide).chosen


\* the answers of a tool's local validation, libre.py:1030, 1070, 416
LocallyRejected ==
    fret \in { Str("Error: file_path is not a presentation."),
               Str("Error: file_path is not a presentation file."),
               Str("Invalid heading level: L. Choose a level between 1 and 6.") }

\* C26: a tool whose local validation fails (a presentation tool given a
\* path that does not end in a presentation extension, add_heading given a
\* level outside 1..6) returns an error string and sends no command to the
\* executor, and every presentation tool accepts the same paths, whatever
\* the letter case of the extension.
C26_LocalValidation ==
    /\ LocallyRejected =>
          fpc = "done" /\ fsock = "none" /\ freply = NoReply
    /\ (fpc # "idle" /\ fcall.action = "add_heading"
           /\ fcall.level \notin 1..6)
        => fret.isStr /\ fpc = "done" /\ fsock = "none"
    /\ (fpc # "idle" /\ fcall.action \in PresentationTools \cup { "add_slide" })
        => (LocallyRejected
              <=> ~endswith(lower(fcall.path), impress_extensions))


\* C27: call_libreoffice_helper opens a fresh socket for each call and has
\* closed the socket it opened when it returns, on every exit path
\* (success, empty response, receive timeout, connection refused,
\* malformed JSON); no socket is reused or left open after a call.
C27_SocketClosedOnReturn ==
    /\ fpc = "connect" => fsock = "none"
    /\ fpc \in { "tool", "done" } => fsock # "open"


\* C28: search_replace_text answers with an error and stores nothing when
\* the search text does not occur in the document text, and otherwise
\* replaces every occurrence and stores, the replacement matching as the
\* occurrence test does; delete_text(path, T) does what
\* search_replace_text(path, T, "") does.
C28_SearchReplace ==
    (args # NoArgs /\ args.fn \in { "search_replace_text", "delete_text" }
       /\ HasText(args.before))
    => LET x == args.p.search_text
           r == args.p.replace_text
           f == args.before
       IN /\ ~Contains(getString(f.body), x)
               => /\ retval.status = "error"
                  /\ ~retval.stored
                  /\ file = f
          /\ Contains(getString(f.body), x)
               => /\ retval.status = "success"
                  /\ retval.stored
                  /\ file.body = replaceAll(f.body, x, r, TRUE).body
          /\ args.fn = "delete_text"
               => LET o == search_replace_text(f, x, << >>)
                  IN /\ retval.stored = o.stored
                     /\ file = (IF o.stored THEN o.doc ELSE f)
                     /\ retval.message
                          = BuildResponse(safe_execute("delete_text", o.exc),
                                          o.result).message


\* C30: for every positive image size, DPI and maximum, insert_slide_image
\* never scales the image up, the final size is within the maximum in
\* effect (the caller's maximum capped at 90% of the slide's side, 75% of
\* the side when none is given), and the centred image lies entirely
\* inside the slide.
C30_ImageFitsSlide ==
    (/\ args # NoArgs
     /\ args.fn = "insert_slide_image"
     /\ args.img_width_px # NoPx
     /\ args.img_height_px # NoPx)
    => /\ retval.exc = NoExc
       /\ retval.width <= retval.sizes.original_width
       /\ retval.height <= retval.sizes.original_height
       /\ retval.width <= retval.sizes.max_width
       /\ retval.height <= retval.sizes.max_height
       /\ retval.sizes.max_width
            = (IF args.max_width = NoMax THEN (args.slide[1] * 3) \div 4
               ELSE Min2(args.max_width, (args.slide[1] * 9) \div 10))
       /\ retval.x >= 0
       /\ retval.y >= 0
       /\ retval.x + retval.width <= args.slide[1]
       /\ retval.y + retval.height <= args.slide[2]

====
